---- MODULE Spec2Model ----
(***************************************************************************)
(* A model of the Pygame-RTS simulation core (CondaRTS.py and src/):       *)
(* combat and projectile resolution, Headquarters production and building  *)
(* placement, the Harvester cycle, the AI production policy and the        *)
(* fog of war.  Every subsystem has its own specification over the shared  *)
(* variables; a specification leaves the variables of the other            *)
(* subsystems at their initial values.                                     *)
(*                                                                         *)
(* Geometry is integer geometry: pygame Rects hold integers, every centre  *)
(* is an integer point, and every comparison of a Euclidean distance with  *)
(* a constant is made on the squared integers.                             *)
(***************************************************************************)
EXTENDS Integers, Sequences, FiniteSets, TLC

VARIABLES
    \* --- the Headquarters under study and what its update reads ------------
    hqTeam,                \* Headquarters.team
    iron,                  \* Headquarters.iron
    production_queue,      \* Headquarters.production_queue
    production_timer,      \* Headquarters.production_timer, in 1/TimerUnit ticks
    pending_building,      \* Headquarters.pending_building
    pending_building_pos,  \* Headquarters.pending_building_pos
    power_output,          \* Headquarters.power_output
    power_usage,           \* Headquarters.power_usage
    global_buildings,      \* the global_buildings group, in insertion order
    friendly_units,        \* the unit group of hqTeam (player_units or ai_units)
    headTicks,             \* history: Headquarters.update calls the head of the
                           \* queue has seen, <<with enough power, without>>
    lastDone,              \* history: the item last removed from the queue
    ticks,                 \* history: iterations of the main loop made
    \* --- the player's ProductionInterface and mouse ------------------------
    current_tab,           \* ProductionInterface.current_tab
    interface_timer,       \* ProductionInterface.production_timer
    selected_building,     \* the global selected_building
    lastCommand,           \* history: the last mouse event and what it met
    commands,              \* history: number of mouse events handled
    \* --- the AI and what it looks at ---------------------------------------
    ai,                    \* the fields of the AI object
    enemy_units,           \* the unit group of the other team
    iron_fields,           \* the iron_fields group
    phase,                 \* where the main loop stands within an iteration
    decisions,             \* history: number of AI.produce_objs calls made
    \* --- the fog of war ----------------------------------------------------
    explored,      \* FogOfWar.explored: the tiles <<x, y>> whose flag is True
    visible,       \* FogOfWar.visible: the tiles <<x, y>> whose flag is True
    fogUpdates,    \* history: number of FogOfWar.update calls made
    \* --- the battlefield ---------------------------------------------------
    global_units,  \* the global_units group, in insertion order; player_units
                   \* and ai_units are its members of either team
    projectiles,   \* the projectiles group, in insertion order
    graveyard,     \* the units and buildings kill() has removed from every
                   \* group; references to them (target_unit) stay usable
    fired,         \* history: for every Projectile created, how often it has
                   \* reduced an entity's health
    orders,        \* history: number of orders the units have been given
    turn,          \* within handle_attacks: the place in team_units of the
                   \* unit the loop comes to next
    under_attack   \* the ids of the units and buildings whose under_attack
                   \* field is True

hqVars == <<hqTeam, iron, production_queue, production_timer, pending_building,
            pending_building_pos, power_output, power_usage, global_buildings,
            friendly_units>>

hqHistory == <<headTicks, lastDone, ticks>>

uiVars == <<current_tab, interface_timer, selected_building, lastCommand, commands>>

aiVars == <<ai, enemy_units, iron_fields, phase, decisions>>

fogVars == <<explored, visible, fogUpdates>>

gameVars == <<global_units, projectiles, graveyard, fired, orders, turn, under_attack>>

vars == <<hqVars, hqHistory, uiVars, aiVars, fogVars, gameVars>>

(***************************************************************************)
(* Constants of src/constants.py                                           *)
(***************************************************************************)
MAP_WIDTH == 1600
MAP_HEIGHT == 800
TILE_SIZE == 32

None == "None"

\* None where a position (a Vector2 or a pair) is expected
NoPos == <<>>

Sq(n) == n * n

Max(a, b) == IF a >= b THEN a ELSE b

Min(a, b) == IF a <= b THEN a ELSE b

(***************************************************************************)
(* Classes and their class attributes                                      *)
(***************************************************************************)
GDI == "gdi"

NOD == "nod"

UnitClasses == { "Infantry", "Tank", "Harvester" }

BuildingClasses == { "Barracks", "WarFactory", "PowerPlant", "Headquarters", "Turret" }

Classes == UnitClasses \cup BuildingClasses

\* issubclass(unit_cls, Building)
issubclass_Building(cls) == cls \in BuildingClasses

COST ==
    [ Infantry |-> 100, Tank |-> 500, Harvester |-> 800, Barracks |-> 500,
      WarFactory |-> 1000, PowerPlant |-> 300, Headquarters |-> 2000, Turret |-> 600 ]

POWER_USAGE ==
    [ Infantry |-> 5, Tank |-> 15, Harvester |-> 20, Barracks |-> 25,
      WarFactory |-> 35, PowerPlant |-> 0, Headquarters |-> 0, Turret |-> 25 ]

\* Building.SIZE and its overrides, and the size of the image of a unit
SIZE ==
    [ Barracks |-> <<60, 60>>, WarFactory |-> <<60, 60>>, PowerPlant |-> <<60, 60>>,
      Headquarters |-> <<80, 80>>, Turret |-> <<50, 50>>,
      Infantry |-> <<16, 16>>, Tank |-> <<30, 20>>, Harvester |-> <<50, 30>> ]

\* health (= max_health) a building is constructed with
BuildingHealth ==
    [ Barracks |-> 600, WarFactory |-> 800, PowerPlant |-> 500,
      Headquarters |-> 1200, Turret |-> 500 ]

BUILDING_CONSTRUCTION_RANGE == 160
BASE_POWER == 300
BASE_PRODUCTION_TIME == 180
POWER_OUTPUT == 100
MAX_PRODUCTION_QUEUE_LENGTH == 5

(***************************************************************************)
(* pygame.Rect and Vector2, on integers                                    *)
(***************************************************************************)
Rect(pos, size) == [ x |-> pos[1], y |-> pos[2], w |-> size[1], h |-> size[2] ]

\* Rect.contains
contains(a, r) ==
    /\ a.x <= r.x
    /\ a.y <= r.y
    /\ a.x + a.w >= r.x + r.w
    /\ a.y + a.h >= r.y + r.h
    /\ a.x + a.w > r.x
    /\ a.y + a.h > r.y

\* Rect.colliderect: rectangles that only touch do not collide
colliderect(a, b) ==
    /\ a.w # 0 /\ a.h # 0 /\ b.w # 0 /\ b.h # 0
    /\ a.x < b.x + b.w
    /\ a.y < b.y + b.h
    /\ b.x < a.x + a.w
    /\ b.y < a.y + a.h

\* Rect.center
rect_center(r) == <<r.x + r.w \div 2, r.y + r.h \div 2>>

\* squared Vector2.distance_to / magnitude
Dist2(p, q) == Sq(p[1] - q[1]) + Sq(p[2] - q[2])

\* a building of the roster: its rect and its position (the rect's centre)
rectOf(b) == Rect(<<b.x, b.y>>, SIZE[b.cls])

position(b) == rect_center(rectOf(b))

(***************************************************************************)
(* src/geometry.py                                                         *)
(***************************************************************************)
rect_is_within_map(rect) == contains(Rect(<<0, 0>>, <<MAP_WIDTH, MAP_HEIGHT>>), rect)

\* a range test that takes buildings of either team for friendly ones
is_near_any_building(pos, team, buildings) ==
    \E i \in 1..Len(buildings) :
        /\ buildings[i].health > 0
        /\ Dist2(pos, position(buildings[i])) < Sq(BUILDING_CONSTRUCTION_RANGE)

is_near_friendly_building(pos, team, buildings) ==
    \E i \in 1..Len(buildings) :
        /\ buildings[i].team = team
        /\ buildings[i].health > 0
        /\ Dist2(pos, position(buildings[i])) < Sq(BUILDING_CONSTRUCTION_RANGE)

\* a collision test that looks only at the top left corner of each building
rect_covers_corner_of_building(rect, buildings) ==
    \E i \in 1..Len(buildings) :
        /\ buildings[i].health > 0
        /\ colliderect(rect, Rect(<<buildings[i].x, buildings[i].y>>, <<1, 1>>))

rect_collides_with_building(rect, buildings) ==
    \E i \in 1..Len(buildings) :
        buildings[i].health > 0 /\ colliderect(rect, rectOf(buildings[i]))

is_valid_building_position(pos, new_building_cls, team, buildings) ==
    LET new_building_footprint == Rect(pos, SIZE[new_building_cls])
    IN  /\ rect_is_within_map(new_building_footprint)
        /\ is_near_friendly_building(pos, team, buildings)
        /\ ~ rect_collides_with_building(new_building_footprint, buildings)

\* pos // TILE_SIZE * TILE_SIZE, by floor division
snap_to_grid(pos) ==
    <<(pos[1] \div TILE_SIZE) * TILE_SIZE, (pos[2] \div TILE_SIZE) * TILE_SIZE>>

\* calculate_formation_positions for one unit and direction 0: column 0 of
\* row 0, at (col - 2) * 20, (row - 1.5) * 20 from the centre
formation_position(c) == <<c[1] - 40, c[2] - 30>>

(***************************************************************************)
(* Headquarters (src/game_objects/buildings/headquarters.py)               *)
(***************************************************************************)
\* Bounds of the production scenarios
MaxSupport == 2
MaxTicks == 370
LargeArmy == 21

RECURSIVE Pow(_, _)
Pow(b, n) == IF n = 0 THEN 1 ELSE b * Pow(b, n - 1)

\* One tick of production_timer.  The timer is a float that starts at
\* 180 * 0.9 ** n and loses 1 or 0.5 per update; here it is the integer
\* timer * TimerUnit, exact for n <= MaxSupport.
TimerUnit == 2 * Pow(10, MaxSupport)

RECURSIVE SumUsage(_)
SumUsage(objs) ==
    IF objs = <<>> THEN 0 ELSE POWER_USAGE[Head(objs).cls] + SumUsage(Tail(objs))

LivingOf(buildings, cls) ==
    SelectSeq(buildings, LAMBDA b : b.cls = cls /\ b.health > 0)

\* [b for b in global_buildings if b.team == team]
TeamBuildings(buildings, team) == SelectSeq(buildings, LAMBDA b : b.team = team)

Headquarters_power_output(friendly_buildings) ==
    BASE_POWER + POWER_OUTPUT * Len(LivingOf(friendly_buildings, "PowerPlant"))

Headquarters_power_usage(self, units, friendly_buildings) ==
    SumUsage(units) + SumUsage(SelectSeq(friendly_buildings, LAMBDA b : b.id # self))

has_enough_power(output, usage) == output >= usage

get_production_time(unit_class, friendly_buildings) ==
    LET count ==
            IF unit_class = "Infantry"
            THEN Len(LivingOf(friendly_buildings, "Barracks"))
            ELSE IF unit_class \in { "Tank", "Harvester" }
            THEN Len(LivingOf(friendly_buildings, "WarFactory"))
            ELSE 0
    IN  BASE_PRODUCTION_TIME * Pow(9, count) * Pow(10, MaxSupport - count) * 2

\* min(candidates, key=distance to the headquarters): the first of the nearest
RECURSIVE NearestTo(_, _)
NearestTo(p, candidates) ==
    IF Len(candidates) = 1 THEN candidates[1]
    ELSE LET rest == NearestTo(p, Tail(candidates))
         IN  IF Dist2(p, position(candidates[1])) <= Dist2(p, position(rest))
             THEN candidates[1] ELSE rest

\* the unit a completed production spawns beside spawn_building
NewUnit(unit_cls, team, spawn_building) ==
    LET r == rectOf(spawn_building)
        spawn_pos == <<r.x + r.w + 20, position(spawn_building)[2]>>
        pos == formation_position(spawn_pos)
    IN  [ cls |-> unit_cls, team |-> team, x |-> pos[1], y |-> pos[2],
          formation_target |-> pos, iron |-> 0 ]

\* The fields of the headquarters and the groups its methods read and write
HQState ==
    [ iron |-> iron, production_queue |-> production_queue,
      production_timer |-> production_timer, pending_building |-> pending_building,
      pending_building_pos |-> pending_building_pos, power_output |-> power_output,
      power_usage |-> power_usage, global_buildings |-> global_buildings,
      friendly_units |-> friendly_units ]

\* the building that is the headquarters under study: 1 for GDI, 2 for NOD
HqId(team) == IF team = GDI THEN 1 ELSE 2

HqAlive(buildings, team) == \E i \in 1..Len(buildings) : buildings[i].id = HqId(team)

HqBuilding(buildings, team) ==
    buildings[CHOOSE i \in 1..Len(buildings) : buildings[i].id = HqId(team)]

\* Headquarters.update, lines 132-201: the production timer has fired
production_complete(s, team, friendly_buildings, enough) ==
    LET unit_cls == Head(s.production_queue)
        popped == [ s EXCEPT !.production_queue = Tail(s.production_queue) ]
        barracks == LivingOf(friendly_buildings, "Barracks")
        warfactories == LivingOf(friendly_buildings, "WarFactory")
        self == HqBuilding(s.global_buildings, team)
        next_timer(t) ==
            [ t EXCEPT !.production_timer =
                IF t.production_queue # <<>> /\ enough
                THEN get_production_time(Head(t.production_queue), friendly_buildings)
                ELSE 0 ]
        spawn(b) ==
            next_timer([ popped EXCEPT !.friendly_units =
                            Append(@, NewUnit(unit_cls, team, b)) ])
    IN  IF issubclass_Building(unit_cls)
        THEN next_timer([ popped EXCEPT !.pending_building = unit_cls,
                                         !.pending_building_pos = NoPos ])
        ELSE IF unit_cls = "Infantry"
        THEN IF barracks = <<>> THEN popped
             ELSE spawn(NearestTo(position(self), barracks))
        ELSE IF unit_cls \in { "Tank", "Harvester" }
        THEN IF warfactories = <<>> THEN popped
             ELSE spawn(NearestTo(position(self), warfactories))
        ELSE spawn(self)

\* Headquarters.update
Headquarters_update(s, team) ==
    LET friendly_buildings == TeamBuildings(s.global_buildings, team)
        output == Headquarters_power_output(friendly_buildings)
        usage == Headquarters_power_usage(HqId(team), s.friendly_units, friendly_buildings)
        enough == has_enough_power(output, usage)
        s1 == [ s EXCEPT !.power_output = output, !.power_usage = usage ]
        s2 == IF s1.production_queue # <<>> /\ s1.production_timer = 0 /\ enough
              THEN [ s1 EXCEPT !.production_timer =
                        get_production_time(Head(s1.production_queue), friendly_buildings) ]
              ELSE s1
        s3 == [ s2 EXCEPT !.production_timer =
                  @ - (IF enough THEN TimerUnit ELSE TimerUnit \div 2) ]
    IN  IF s2.production_queue = <<>> THEN s2
        ELSE IF s3.production_timer <= 0
        THEN production_complete(s3, team, friendly_buildings, enough)
        ELSE s3

SetHQ(s) ==
    /\ iron' = s.iron
    /\ production_queue' = s.production_queue
    /\ production_timer' = s.production_timer
    /\ pending_building' = s.pending_building
    /\ pending_building_pos' = s.pending_building_pos
    /\ power_output' = s.power_output
    /\ power_usage' = s.power_usage
    /\ global_buildings' = s.global_buildings
    /\ friendly_units' = s.friendly_units

\* lastDone before any item has been removed
NoItem == [ cls |-> None, powered |-> 0, unpowered |-> 0, full |-> 0 ]

\* history of the head of the queue across one Headquarters.update
SetHistory(s) ==
    LET friendly_buildings == TeamBuildings(global_buildings, hqTeam)
        enough ==
            has_enough_power(
                Headquarters_power_output(friendly_buildings),
                Headquarters_power_usage(HqId(hqTeam), friendly_units, friendly_buildings))
        seen == IF enough THEN <<headTicks[1] + 1, headTicks[2]>>
                ELSE <<headTicks[1], headTicks[2] + 1>>
        removed == Len(s.production_queue) < Len(production_queue)
    IN  /\ headTicks' = IF production_queue = <<>> \/ removed THEN <<0, 0>> ELSE seen
        /\ lastDone' =
             IF removed
             THEN [ cls |-> Head(production_queue), powered |-> seen[1],
                    unpowered |-> seen[2],
                    full |-> get_production_time(Head(production_queue), friendly_buildings) ]
             ELSE lastDone

\* the main loop's call of Headquarters.update on a headquarters still in
\* global_buildings
HQ_update ==
    /\ HqAlive(global_buildings, hqTeam)
    /\ \E s \in { Headquarters_update(HQState, hqTeam) } : SetHQ(s) /\ SetHistory(s)
    /\ UNCHANGED hqTeam

(***************************************************************************)
(* Scenarios: states of a game in progress                                 *)
(***************************************************************************)
Building(id, cls, team, pos) ==
    [ id |-> id, cls |-> cls, team |-> team, x |-> pos[1], y |-> pos[2],
      health |-> BuildingHealth[cls], cooldown_timer |-> 0, target_unit |-> 0 ]

\* gdi_hq and nod_hq as the main program creates them
GdiHq == Building(1, "Headquarters", GDI, <<300, 300>>)

NodHq == Building(2, "Headquarters", NOD, <<MAP_WIDTH - 300, MAP_HEIGHT - 300>>)

\* where the headquarters of a team stands
HqPos(team) == IF team = GDI THEN <<300, 300>> ELSE <<MAP_WIDTH - 300, MAP_HEIGHT - 300>>

\* buildings placed beside the headquarters of team, each at a grid position
\* that is_valid_building_position accepts when they are placed in this order
Support(team, n) ==
    LET o == HqPos(team)
        at(dx, dy) == snap_to_grid(<<o[1] + dx, o[2] + dy>>)
    IN  CASE n = 1 -> Building(3, "Barracks", team, at(110, 0))
          [] n = 2 -> Building(4, "WarFactory", team, at(110, 64))
          [] n = 3 -> Building(5, "Barracks", team, at(0, 110))
          [] n = 4 -> Building(6, "PowerPlant", team, at(-64, 0))

\* the rosters the scenarios start from: both headquarters and the first n
\* support buildings
Layout(team, n) == <<GdiHq, NodHq>> \o [ i \in 1..n |-> Support(team, i) ]

\* the player's base grown to the north edge of the map: each building stands
\* at a grid position inside the map, within BUILDING_CONSTRUCTION_RANGE of
\* the building placed before it
EdgeLayout ==
    <<GdiHq, NodHq, Building(3, "PowerPlant", GDI, <<320, 192>>),
      Building(4, "PowerPlant", GDI, <<352, 64>>),
      Building(5, "Barracks", GDI, <<352, 0>>)>>

Unit(cls, team, pos) ==
    [ cls |-> cls, team |-> team, x |-> pos[1], y |-> pos[2],
      formation_target |-> NoPos, iron |-> 0 ]

\* n tanks in a row south of the headquarters
Army(team, n) ==
    [ i \in 1..n |-> Unit("Tank", team, <<HqPos(team)[1] - 200 + 20 * i, HqPos(team)[2] + 200>>) ]

\* queues left by earlier build commands
ScenarioQueues ==
    { <<"Barracks">>, <<"Infantry">>, <<"Tank", "Infantry">>,
      <<"Barracks", "Turret">>, <<"Harvester", "Tank">>, <<"Infantry", "Infantry">> }

\* selected_building = None
NoBuilding == [ id |-> 0, cls |-> None ]

\* ProductionInterface.production_timer = None
NoTimer == -1

\* lastCommand before any mouse event
NoCommand == [ kind |-> None, cls |-> None, pos |-> NoPos, accepted |-> FALSE ]

\* no mouse event yet: the interface as __post_init__ leaves it
UiIdle ==
    /\ current_tab = "Units"
    /\ interface_timer = NoTimer
    /\ selected_building = NoBuilding
    /\ lastCommand = NoCommand
    /\ commands = 0

\* no AI in play
AiIdle ==
    /\ ai = [ timer |-> 0, wave_timer |-> 0, wave_number |-> 0, state |-> "BUILD_UP",
              surprise_attack_cooldown |-> 0 ]
    /\ enemy_units = <<>>
    /\ iron_fields = <<>>
    /\ phase = "buildings"
    /\ decisions = 0

HqIdle ==
    /\ hqTeam = GDI
    /\ iron = 0
    /\ production_queue = <<>>
    /\ production_timer = 0
    /\ pending_building = None
    /\ pending_building_pos = NoPos
    /\ power_output = 0
    /\ power_usage = 0
    /\ global_buildings = <<>>
    /\ friendly_units = <<>>
    /\ headTicks = <<0, 0>>
    /\ lastDone = NoItem

FogIdle ==
    /\ explored = {}
    /\ visible = {}
    /\ fogUpdates = 0

\* no unit on the map and no shot fired
GameIdle ==
    /\ global_units = <<>>
    /\ projectiles = <<>>
    /\ graveyard = <<>>
    /\ fired = <<>>
    /\ orders = 0
    /\ turn = 1
    /\ under_attack = {}

\* A headquarters in the middle of a game, whose queue has just been filled:
\* by the player (handle_click leaves production_timer at 0) or by the AI
\* (produce_objs sets it to the head's production time).
ProductionInit ==
    /\ ticks = 0
    /\ hqTeam \in { GDI, NOD }
    /\ iron = 1500
    /\ \/ \E n \in { 0, 1, 2, 4 } : global_buildings = Layout(hqTeam, n)
       \/ hqTeam = GDI /\ global_buildings = EdgeLayout
    /\ \E n \in { 0, LargeArmy } : friendly_units = Army(hqTeam, n)
    /\ production_queue \in ScenarioQueues
    /\ production_timer =
         IF hqTeam = GDI THEN 0
         ELSE get_production_time(Head(production_queue),
                                  TeamBuildings(global_buildings, hqTeam))
    /\ pending_building = None
    /\ pending_building_pos = NoPos
    /\ power_output = Headquarters_power_output(TeamBuildings(global_buildings, hqTeam))
    /\ power_usage =
         Headquarters_power_usage(HqId(hqTeam), friendly_units,
                                  TeamBuildings(global_buildings, hqTeam))
    /\ headTicks = <<0, 0>>
    /\ lastDone = NoItem
    /\ UiIdle
    /\ AiIdle
    /\ FogIdle
    /\ GameIdle

\* one iteration of the main loop, as far as the headquarters is concerned
ProductionTick ==
    /\ ticks < MaxTicks
    /\ ticks' = ticks + 1
    /\ HQ_update
    /\ UNCHANGED <<uiVars, aiVars, fogVars, gameVars>>

NextProduction == ProductionTick

SpecProduction == ProductionInit /\ [][NextProduction]_vars

\* C2: an item whose time at the head of the queue was spent without enough
\* power throughout is removed no sooner than the full-power production time
\* of that item (its get_production_time, at one per tick)
C2_NeverFasterUnderpowered ==
    (lastDone.cls # None /\ lastDone.powered = 0)
        => lastDone.unpowered * TimerUnit >= lastDone.full

\* the head of the queue is a unit whose support building (Barracks for
\* Infantry, WarFactory for Tank and Harvester) the faction does not have
C11_HeadLacksSupport ==
    /\ production_queue # <<>>
    /\ LET friendly_buildings == TeamBuildings(global_buildings, hqTeam)
       IN  \/ /\ Head(production_queue) = "Infantry"
              /\ LivingOf(friendly_buildings, "Barracks") = <<>>
           \/ /\ Head(production_queue) \in { "Tank", "Harvester" }
              /\ LivingOf(friendly_buildings, "WarFactory") = <<>>

\* C11: while the support building of the head of the queue is missing, an
\* update of the headquarters spawns no unit, refunds no iron and leaves the
\* production queue as it is, the item at its head.
C11_StalledHeadStays ==
    [][C11_HeadLacksSupport =>
         /\ production_queue' = production_queue
         /\ friendly_units' = friendly_units
         /\ iron' = iron]_vars

(***************************************************************************)
(* Headquarters.place_building                                             *)
(***************************************************************************)
RECURSIVE MaxId(_)
MaxId(buildings) ==
    IF buildings = <<>> THEN 0 ELSE Max(Head(buildings).id, MaxId(Tail(buildings)))

\* the identity of a building object created now; ids 1..6 are those of the
\* headquarters and of the buildings of the scenarios
NewId(buildings, selected) == 1 + Max(6, Max(selected.id, MaxId(buildings)))

\* the team-coloured building a placement constructs
place_building(s, pos, unit_cls, team, id) ==
    LET snapped_pos == snap_to_grid(pos)
        all_buildings == Append(s.global_buildings, Building(id, unit_cls, team, snapped_pos))
    IN  IF is_valid_building_position(snapped_pos, unit_cls, team, s.global_buildings)
        THEN [ s EXCEPT
                 !.global_buildings = all_buildings,
                 !.pending_building = None,
                 !.pending_building_pos = NoPos,
                 !.production_timer =
                    IF s.production_queue # <<>>
                       /\ has_enough_power(s.power_output, s.power_usage)
                    THEN get_production_time(Head(s.production_queue),
                                             TeamBuildings(all_buildings, team))
                    ELSE @ ]
        ELSE s

(***************************************************************************)
(* ProductionInterface and the mouse events of the main loop (CondaRTS.py) *)
(***************************************************************************)
TabNames == { "Units", "Buildings", "Defensive" }

\* ProductionInterface.buy_buttons: the classes of a tab, from the top slot down
buy_buttons ==
    [ Units |-> <<"Tank", "Infantry", "Harvester">>,
      Buildings |-> <<"Barracks", "WarFactory", "PowerPlant", "Headquarters">>,
      Defensive |-> <<"Turret">> ]

\* the requirement function of a buy button: lambda: req for the units, which
\* returns the (truthy) function req itself, and lambda: True for the others
req_fn(unit_cls) == TRUE

\* What a click on the interface panel hits.  The rects of the three tab
\* buttons, of the four buy slots and of the sell button are disjoint.
Widgets ==
    [ kind : { "tab" }, arg : TabNames, slot : { 0 } ]
      \cup [ kind : { "buy" }, arg : { None }, slot : 1..4 ]
      \cup [ kind : { "sell", "map" }, arg : { None }, slot : { 0 } ]

\* the class whose buy button lies under the click, if any
ButtonUnder(tab, widget) ==
    IF widget.kind = "buy" /\ widget.slot <= Len(buy_buttons[tab])
    THEN buy_buttons[tab][widget.slot] ELSE None

RemoveId(buildings, id) == SelectSeq(buildings, LAMBDA b : b.id # id)

\* a handle_click whose buy buttons do not look at the iron of the headquarters
handle_click_on_credit(s, ui, widget, team) ==
    LET unit_cls == ButtonUnder(ui.current_tab, widget)
        own_buildings == TeamBuildings(s.global_buildings, team)
    IN  IF widget.kind = "tab"
        THEN [ handled |-> TRUE, s |-> s, ui |-> [ ui EXCEPT !.current_tab = widget.arg ] ]
        ELSE IF Len(s.production_queue) >= MAX_PRODUCTION_QUEUE_LENGTH
        THEN [ handled |-> FALSE, s |-> s, ui |-> ui ]
        ELSE IF unit_cls # None /\ req_fn(unit_cls)
        THEN [ handled |-> TRUE,
               s |-> [ s EXCEPT !.production_queue = Append(@, unit_cls),
                                !.iron = @ - COST[unit_cls] ],
               ui |-> [ ui EXCEPT !.production_timer =
                          IF s.production_timer = 0
                          THEN get_production_time(unit_cls, own_buildings) ELSE @ ] ]
        ELSE IF widget.kind = "sell" /\ ui.selected_building # NoBuilding
        THEN [ handled |-> TRUE,
               s |-> [ s EXCEPT !.iron = @ + COST[ui.selected_building.cls] \div 2,
                                !.global_buildings = RemoveId(@, ui.selected_building.id) ],
               ui |-> [ ui EXCEPT !.selected_building = NoBuilding ] ]
        ELSE [ handled |-> FALSE, s |-> s, ui |-> ui ]

\* ProductionInterface.handle_click: s is the headquarters, ui the interface
handle_click(s, ui, widget, team) ==
    LET unit_cls == ButtonUnder(ui.current_tab, widget)
        own_buildings == TeamBuildings(s.global_buildings, team)
    IN  IF widget.kind = "tab"
        THEN [ handled |-> TRUE, s |-> s, ui |-> [ ui EXCEPT !.current_tab = widget.arg ] ]
        ELSE IF Len(s.production_queue) >= MAX_PRODUCTION_QUEUE_LENGTH
        THEN [ handled |-> FALSE, s |-> s, ui |-> ui ]
        ELSE IF unit_cls # None /\ s.iron >= COST[unit_cls] /\ req_fn(unit_cls)
        THEN [ handled |-> TRUE,
               s |-> [ s EXCEPT !.production_queue = Append(@, unit_cls),
                                !.iron = @ - COST[unit_cls] ],
               ui |-> [ ui EXCEPT !.production_timer =
                          IF s.production_timer = 0
                          THEN get_production_time(unit_cls, own_buildings) ELSE @ ] ]
        ELSE IF widget.kind = "sell" /\ ui.selected_building # NoBuilding
        THEN [ handled |-> TRUE,
               s |-> [ s EXCEPT !.iron = @ + COST[ui.selected_building.cls] \div 2,
                                !.global_buildings = RemoveId(@, ui.selected_building.id) ],
               ui |-> [ ui EXCEPT !.selected_building = NoBuilding ] ]
        ELSE [ handled |-> FALSE, s |-> s, ui |-> ui ]

\* the fields of the interface and the global selected_building
UIState ==
    [ current_tab |-> current_tab, production_timer |-> interface_timer,
      selected_building |-> selected_building ]

SetUI(ui) ==
    /\ current_tab' = ui.current_tab
    /\ interface_timer' = ui.production_timer
    /\ selected_building' = ui.selected_building

\* next(b for b in global_buildings if b.team == GDI and its rect holds the
\* click), else None
clicked_building(buildings, pos) ==
    LET hit(b) ==
            /\ b.team = GDI
            /\ rectOf(b).x <= pos[1] /\ pos[1] < rectOf(b).x + rectOf(b).w
            /\ rectOf(b).y <= pos[2] /\ pos[2] < rectOf(b).y + rectOf(b).h
        hits == SelectSeq(buildings, hit)
    IN  IF hits = <<>> THEN NoBuilding ELSE [ id |-> hits[1].id, cls |-> hits[1].cls ]

\* Bounds of the command scenarios
MaxCommands == 2
MaxCommandTicks == 2

\* World positions of the clicks: beside the GDI headquarters, on it, far from
\* every building, beside the NOD headquarters, at the bottom edge of the map,
\* and on the interface panel (which the camera maps to x = MAP_WIDTH)
PanelPos == <<MAP_WIDTH, 200>>

ClickPositions ==
    { <<420, 400>>, <<340, 340>>, <<700, 300>>, <<1410, 520>>, <<330, 770>> }

Clicks ==
    { [ widget |-> w, pos |-> PanelPos ] : w \in { v \in Widgets : v.kind # "map" } }
      \cup { [ widget |-> w, pos |-> p ] :
                w \in { v \in Widgets : v.kind = "map" }, p \in ClickPositions }

\* MOUSEBUTTONDOWN, button 1 (main loop, lines 679-720)
MouseButtonDown1(click) ==
    /\ hqTeam = GDI
    /\ commands < MaxCommands
    /\ commands' = commands + 1
    /\ IF pending_building # None
       THEN LET snapped_pos == snap_to_grid(click.pos)
                id == NewId(global_buildings, selected_building)
                s == IF is_valid_building_position(snapped_pos, pending_building,
                                                   hqTeam, global_buildings)
                     THEN place_building(HQState, click.pos, pending_building, hqTeam, id)
                     ELSE HQState
            IN  /\ SetHQ(s)
                /\ UNCHANGED <<current_tab, interface_timer, selected_building>>
                /\ lastCommand' =
                     [ kind |-> "place", cls |-> pending_building, pos |-> snapped_pos,
                       accepted |-> s.global_buildings # global_buildings ]
       ELSE LET r == handle_click(HQState, UIState, click.widget, hqTeam)
                unit_cls == ButtonUnder(current_tab, click.widget)
            IN  /\ SetHQ(r.s)
                /\ IF r.handled THEN SetUI(r.ui)
                   ELSE SetUI([ r.ui EXCEPT !.selected_building =
                                   clicked_building(global_buildings, click.pos) ])
                /\ lastCommand' =
                     [ kind |-> IF unit_cls # None THEN "buy"
                                ELSE IF click.widget.kind = "buy" THEN "empty slot"
                                ELSE click.widget.kind,
                       cls |-> unit_cls, pos |-> NoPos, accepted |-> r.handled ]
    /\ UNCHANGED <<hqTeam, hqHistory, aiVars, fogVars, gameVars>>

\* MOUSEBUTTONDOWN, button 3, while a building awaits placement (lines 722-732)
MouseButtonDown3 ==
    /\ hqTeam = GDI
    /\ commands < MaxCommands
    /\ pending_building # None
    /\ commands' = commands + 1
    /\ pending_building' = None
    /\ pending_building_pos' = NoPos
    /\ production_timer' =
         IF production_queue # <<>> /\ has_enough_power(power_output, power_usage)
         THEN get_production_time(Head(production_queue),
                                  TeamBuildings(global_buildings, GDI))
         ELSE production_timer
    /\ lastCommand' = [ NoCommand EXCEPT !.kind = "cancel" ]
    /\ UNCHANGED <<hqTeam, iron, production_queue, power_output, power_usage,
                   global_buildings, friendly_units, hqHistory,
                   current_tab, interface_timer, selected_building, aiVars, fogVars, gameVars>>

\* two power plants placed one after the other towards the bottom edge of the
\* map, each within construction range of the building before it
ChainLayout ==
    <<GdiHq, NodHq, Building(3, "PowerPlant", GDI, <<320, 448>>),
      Building(4, "PowerPlant", GDI, <<320, 608>>)>>

\* what the player's headquarters holds when the commands start: nothing, a
\* building awaiting placement, a queue whose head is one update from
\* completion, or a full queue
CommandQueues ==
    { [ queue |-> <<>>, timer |-> 0, pending |-> None ],
      [ queue |-> <<>>, timer |-> 0, pending |-> "PowerPlant" ],
      [ queue |-> <<>>, timer |-> 0, pending |-> "Headquarters" ],
      [ queue |-> <<"Turret">>, timer |-> TimerUnit, pending |-> None ],
      [ queue |-> <<"Tank">>, timer |-> TimerUnit, pending |-> "Turret" ],
      [ queue |-> <<"Infantry", "Infantry", "Infantry", "Infantry", "Infantry">>,
        timer |-> 2 * TimerUnit, pending |-> None ] }

\* The player's side in the middle of a game
CommandInit ==
    /\ ticks = 0
    /\ hqTeam = GDI
    /\ iron \in { 400, 1500 }
    /\ global_buildings \in { Layout(GDI, 0), Layout(GDI, 2), ChainLayout }
    /\ \E n \in { 0, LargeArmy } : friendly_units = Army(GDI, n)
    /\ \E q \in CommandQueues :
          /\ production_queue = q.queue
          /\ production_timer = q.timer
          /\ pending_building = q.pending
    /\ pending_building_pos = NoPos
    /\ power_output = Headquarters_power_output(TeamBuildings(global_buildings, GDI))
    /\ power_usage =
         Headquarters_power_usage(HqId(GDI), friendly_units,
                                  TeamBuildings(global_buildings, GDI))
    /\ headTicks = <<0, 0>>
    /\ lastDone = NoItem
    /\ current_tab \in { "Units", "Buildings" }
    /\ interface_timer = NoTimer
    /\ selected_building = NoBuilding
    /\ lastCommand = NoCommand
    /\ commands = 0
    /\ AiIdle
    /\ FogIdle
    /\ GameIdle

\* one iteration of the main loop with no event in the queue
CommandTick ==
    /\ ticks < MaxCommandTicks
    /\ ticks' = ticks + 1
    /\ HQ_update
    /\ UNCHANGED <<uiVars, aiVars, fogVars, gameVars>>

NextCommands ==
    \/ \E click \in Clicks : MouseButtonDown1(click)
    \/ MouseButtonDown3
    \/ CommandTick

SpecCommands == CommandInit /\ [][NextCommands]_vars

\* The three conditions of a placement, each stated on the footprint and on
\* the rosters directly
C4_InsideMap(pos, cls) ==
    /\ 0 <= pos[1] /\ pos[1] + SIZE[cls][1] <= MAP_WIDTH
    /\ 0 <= pos[2] /\ pos[2] + SIZE[cls][2] <= MAP_HEIGHT

C4_InRange(pos, team, buildings) ==
    \E i \in 1..Len(buildings) :
        LET b == buildings[i]
            cx == b.x + SIZE[b.cls][1] \div 2
            cy == b.y + SIZE[b.cls][2] \div 2
        IN  /\ b.team = team /\ b.health > 0
            /\ (pos[1] - cx) * (pos[1] - cx) + (pos[2] - cy) * (pos[2] - cy)
                  < BUILDING_CONSTRUCTION_RANGE * BUILDING_CONSTRUCTION_RANGE

C4_Overlaps(pos, cls, buildings) ==
    \E i \in 1..Len(buildings) :
        LET b == buildings[i]
        IN  /\ b.health > 0
            /\ pos[1] < b.x + SIZE[b.cls][1] /\ b.x < pos[1] + SIZE[cls][1]
            /\ pos[2] < b.y + SIZE[b.cls][2] /\ b.y < pos[2] + SIZE[cls][2]

\* C4: a placement adds a building, of the pending class and of the placing
\* team, at the snapped position, if and only if the footprint lies inside the
\* map, the position is within BUILDING_CONSTRUCTION_RANGE of a living
\* building of the placing team and the footprint overlaps no living building
\* of either team; when any one of the three fails the roster stays as it is.
C4_PlacementIffValid ==
    [][ (commands' = commands + 1 /\ lastCommand'.kind = "place") =>
          LET pos == lastCommand'.pos
              cls == lastCommand'.cls
              valid == /\ C4_InsideMap(pos, cls)
                       /\ C4_InRange(pos, hqTeam, global_buildings)
                       /\ ~ C4_Overlaps(pos, cls, global_buildings)
              added == global_buildings'[Len(global_buildings')]
          IN  IF valid
              THEN /\ Len(global_buildings') = Len(global_buildings) + 1
                   /\ SubSeq(global_buildings', 1, Len(global_buildings)) = global_buildings
                   /\ added.cls = cls /\ added.team = hqTeam
                   /\ <<added.x, added.y>> = pos
                   /\ lastCommand'.accepted
              ELSE /\ global_buildings' = global_buildings
                   /\ ~ lastCommand'.accepted ]_vars

\* a placement was rejected although its position was in range of a friendly
\* building and free of buildings: only the map bounds failed
C4_Witness ==
    /\ lastCommand.kind = "place"
    /\ ~ lastCommand.accepted
    /\ ~ C4_InsideMap(lastCommand.pos, lastCommand.cls)
    /\ C4_InRange(lastCommand.pos, hqTeam, global_buildings)
    /\ ~ C4_Overlaps(lastCommand.pos, lastCommand.cls, global_buildings)

\* C9: a buy click on the button of a class that costs more than the iron of
\* the headquarters, and a placement click at a position that fails
\* validation, leave the production queue, the iron, the production timer,
\* the pending building and the rosters of buildings and units as they were.
C9_RejectedCommandChangesNothing ==
    [][ ( /\ commands' = commands + 1
          /\ \/ /\ lastCommand'.kind = "buy"
                /\ iron < COST[lastCommand'.cls]
             \/ /\ lastCommand'.kind = "place"
                /\ ~ ( /\ C4_InsideMap(lastCommand'.pos, lastCommand'.cls)
                       /\ C4_InRange(lastCommand'.pos, hqTeam, global_buildings)
                       /\ ~ C4_Overlaps(lastCommand'.pos, lastCommand'.cls,
                                        global_buildings) ) )
        => UNCHANGED <<production_queue, iron, production_timer, interface_timer,
                       pending_building, pending_building_pos, global_buildings,
                       friendly_units>> ]_vars

\* a buy click on a button whose class the headquarters cannot afford has been
\* turned down while the queue had room
C9_Witness ==
    /\ lastCommand.kind = "buy"
    /\ ~ lastCommand.accepted
    /\ iron < COST[lastCommand.cls]
    /\ Len(production_queue) < MAX_PRODUCTION_QUEUE_LENGTH

(***************************************************************************)
(* AI (src/ai.py)                                                          *)
(***************************************************************************)
ACTION_INTERVAL == 50
THREAT_RANGE == 500

CountCls(objs, cls) == Len(SelectSeq(objs, LAMBDA o : o.cls = cls))

\* the centre of an iron field, whose image is 40 x 40
field_position(f) == <<f.x + 20, f.y + 20>>

\* _enemy_unit_counts
enemy_unit_counts(enemies, enemy_buildings) ==
    [ harvester |-> CountCls(enemies, "Harvester"),
      tank |-> CountCls(enemies, "Tank"),
      infantry |-> CountCls(enemies, "Infantry"),
      turret |-> CountCls(enemy_buildings, "Turret") ]

RECURSIVE SumIron(_)
SumIron(units) ==
    IF units = <<>> THEN 0
    ELSE (IF Head(units).cls = "Harvester" THEN Head(units).iron ELSE 0)
            + SumIron(Tail(units))

\* iron_income_rate < 50, where the rate is the mean cargo of the friendly
\* harvesters * 60 / 40
income_below_50(units) ==
    SumIron(units) * 60 < 50 * 40 * Max(1, CountCls(units, "Harvester"))

\* self.hq of the AI: the headquarters of team, which the AI keeps referring
\* to after it has been destroyed and has left global_buildings
AiHq(buildings, team) ==
    IF HqAlive(buildings, team) THEN HqBuilding(buildings, team)
    ELSE [ (IF team = GDI THEN GdiHq ELSE NodHq) EXCEPT !.health = 0 ]

\* a determine_state that looks for enemies near the headquarters before it
\* looks at the health of the headquarters
determine_state_threat_first(s, wave_number, hq, units, enemies, enemy_buildings) ==
    LET player_base_size == Len(enemies) + Len(enemy_buildings)
        defense_cooldown == 0
    IN  IF s.iron < 300 \/ income_below_50(units) THEN "BROKE"
        ELSE IF \E i \in 1..Len(enemies) :
                   Dist2(<<enemies[i].x, enemies[i].y>>, position(hq))
                      < Sq(THREAT_RANGE)
        THEN "THREATENED"
        ELSE IF hq.health * 10 < BuildingHealth["Headquarters"] * 6 \/ defense_cooldown > 0
        THEN "ATTACKED"
        ELSE IF wave_number >= 2 \/ player_base_size > 8 THEN "AGGRESSIVE"
        ELSE "BUILD_UP"

\* AI.determine_state; hq is the record of the AI's headquarters building
determine_state(s, wave_number, hq, units, enemies, enemy_buildings) ==
    LET player_base_size == Len(enemies) + Len(enemy_buildings)
        defense_cooldown == 0
    IN  IF s.iron < 300 \/ income_below_50(units) THEN "BROKE"
        ELSE IF hq.health * 10 < BuildingHealth["Headquarters"] * 6 \/ defense_cooldown > 0
        THEN "ATTACKED"
        ELSE IF \E i \in 1..Len(enemies) :
                   Dist2(<<enemies[i].x, enemies[i].y>>, position(hq))
                      < Sq(THREAT_RANGE)
        THEN "THREATENED"
        ELSE IF wave_number >= 2 \/ player_base_size > 8 THEN "AGGRESSIVE"
        ELSE "BUILD_UP"

\* floor of 120 * cos and of 120 * sin of 0, 20, ..., 340 degrees
AngleOffsets ==
    << <<120, 0>>, <<112, 41>>, <<91, 77>>, <<60, 103>>, <<20, 118>>, <<-21, 118>>,
       <<-60, 103>>, <<-92, 77>>, <<-113, 41>>, <<-120, 0>>, <<-113, -42>>,
       <<-92, -78>>, <<-61, -104>>, <<-21, -119>>, <<20, -119>>, <<60, -104>>,
       <<91, -78>>, <<112, -42>> >>

\* the k-th position tried around building b.  120 * cos(240 degrees) is the
\* double -60.00000000000006: added to a centre of 573 or more the sum rounds
\* to centre - 60, below that it stays under it and the floor is centre - 61.
candidate_position(b, k) ==
    LET c == position(b)
        dx == IF k = 13 /\ c[1] >= 573 THEN -60 ELSE AngleOffsets[k][1]
    IN  snap_to_grid(<<c[1] + dx, c[2] + AngleOffsets[k][2]>>)

\* AI.find_valid_building_position
find_valid_building_position(building_cls, friendly_buildings, enemy_buildings, fields, hq, team) ==
    LET closest_field ==
            IF fields = <<>> THEN 0
            ELSE CHOOSE i \in 1..Len(fields) :
                    \A j \in 1..Len(fields) :
                        LET di == Dist2(position(hq), field_position(fields[i]))
                            dj == Dist2(position(hq), field_position(fields[j]))
                        IN  di < dj \/ (di = dj /\ i <= j)
        n == Len(AngleOffsets)
        tried == 0..(Len(friendly_buildings) * n - 1)
        at(t) == candidate_position(friendly_buildings[(t \div n) + 1], (t % n) + 1)
        found(t) ==
            /\ friendly_buildings[(t \div n) + 1].health > 0
            /\ is_valid_building_position(at(t), building_cls, team,
                                          friendly_buildings \o enemy_buildings)
            /\ \/ closest_field = 0
               \/ /\ closest_field # 0
                  /\ Dist2(at(t), field_position(fields[closest_field])) < Sq(600)
        hits == { t \in tried : found(t) }
    IN  IF hits = {} THEN snap_to_grid(position(hq))
        ELSE at(CHOOSE t \in hits : \A u \in hits : t <= u)

\* AI._produce_obj
produce_obj(s, cls) ==
    [ s EXCEPT !.production_queue = Append(@, cls), !.iron = @ - COST[cls] ]

\* current_units of AI.produce_objs
current_units(s, units, friendly_buildings) ==
    [ harvester |-> CountCls(units, "Harvester"),
      infantry |-> CountCls(units, "Infantry"),
      tank |-> CountCls(units, "Tank"),
      turret |-> CountCls(friendly_buildings, "Turret"),
      power_plant |-> CountCls(friendly_buildings, "PowerPlant"),
      barracks |-> Len(LivingOf(friendly_buildings, "Barracks"))
                     + Len(SelectSeq(s.production_queue, LAMBDA c : c = "Barracks")),
      war_factory |-> Len(LivingOf(friendly_buildings, "WarFactory"))
                     + Len(SelectSeq(s.production_queue, LAMBDA c : c = "WarFactory")) ]

\* desired_units: int(ratio * SCALE_FACTOR) of DESIRED_UNIT_RATIO, and the rest
desired_units(cu) ==
    [ harvester |-> 7, infantry |-> 10, tank |-> 5, turret |-> 5,
      power_plant |-> Max(1, (cu.harvester + 1) \div 2), barracks |-> 1,
      war_factory |-> 1 ]

\* a policy without the Barracks rule at its head
priority_without_barracks(s, cu, enemy_harvesters, low_income) ==
    LET desired == desired_units(cu)
    IN  IF cu.war_factory = 0 /\ s.iron >= COST["WarFactory"] THEN "WarFactory"
        ELSE IF /\ has_enough_power(s.power_output, s.power_usage)
                /\ s.iron >= COST["PowerPlant"]
                /\ cu.power_plant < desired.power_plant
        THEN "PowerPlant"
        ELSE IF /\ \/ cu.harvester < Min(desired.harvester, enemy_harvesters + 1)
                   \/ low_income
                /\ s.iron >= COST["Harvester"]
                /\ cu.war_factory > 0
        THEN "Harvester"
        ELSE None

\* the four rules at the head of AI.produce_objs (lines 266-298): the class
\* enqueued before the function returns, or None
priority(s, cu, enemy_harvesters, low_income) ==
    LET desired == desired_units(cu)
    IN  IF cu.barracks = 0 /\ s.iron >= COST["Barracks"] THEN "Barracks"
        ELSE IF cu.war_factory = 0 /\ s.iron >= COST["WarFactory"] THEN "WarFactory"
        ELSE IF /\ has_enough_power(s.power_output, s.power_usage)
                /\ s.iron >= COST["PowerPlant"]
                /\ cu.power_plant < desired.power_plant
        THEN "PowerPlant"
        ELSE IF /\ \/ cu.harvester < Min(desired.harvester, enemy_harvesters + 1)
                   \/ low_income
                /\ s.iron >= COST["Harvester"]
                /\ cu.war_factory > 0
        THEN "Harvester"
        ELSE None

\* production_options (lines 304-399): the classes random.choice draws from
production_options(state, s, cu, enemy_harvesters) ==
    LET desired == desired_units(cu)
        iron_ == s.iron
        total_military == cu.infantry + cu.tank + cu.turret
        infantry == cu.barracks > 0 /\ iron_ >= COST["Infantry"]
                       /\ cu.infantry < desired.infantry
        tank == cu.war_factory > 0 /\ iron_ >= COST["Tank"] /\ cu.tank < desired.tank
        turret == iron_ >= COST["Turret"] /\ cu.turret < desired.turret
        power_plant == cu.power_plant < desired.power_plant /\ iron_ >= COST["PowerPlant"]
    IN  IF state \in { "Build Up", "Aggressive" }
        THEN { c \in Classes :
                 \/ c = "Infantry" /\ infantry
                 \/ c = "Tank" /\ tank
                 \/ c = "Turret" /\ turret
                 \/ c = "Harvester" /\ cu.harvester < desired.harvester
                       /\ iron_ >= COST["Harvester"] /\ cu.war_factory > 0
                 \/ c = "PowerPlant" /\ power_plant
                 \/ c = "Barracks" /\ cu.barracks < 2 /\ iron_ >= COST["Barracks"]
                       /\ total_military >= 6
                 \/ c = "WarFactory" /\ cu.war_factory < 2
                       /\ iron_ >= COST["WarFactory"] /\ total_military >= 6
                 \/ c = "Headquarters" /\ iron_ >= COST["Headquarters"]
                       /\ cu.harvester >= 2 }
        ELSE IF state \in { "Attacked", "Threatened" }
        THEN { c \in Classes :
                 \/ c = "Turret" /\ turret
                 \/ c = "Tank" /\ tank
                 \/ c = "Infantry" /\ infantry
                 \/ c = "Harvester"
                       /\ cu.harvester < Min(desired.harvester, enemy_harvesters + 1)
                       /\ iron_ >= COST["Harvester"] /\ cu.war_factory > 0
                 \/ c = "PowerPlant" /\ power_plant }
        ELSE IF /\ state = "BROKE" /\ cu.war_factory > 0 /\ iron_ >= COST["Harvester"]
                /\ cu.harvester < Min(desired.harvester, enemy_harvesters + 1)
        THEN { "Harvester" }
        ELSE {}

\* AI.produce_objs; pick is the class random.choice returns
produce_objs(s, state, units, friendly_buildings, enemies, enemy_buildings, fields, team, pick, id) ==
    LET cu == current_units(s, units, friendly_buildings)
        enemy_harvesters == enemy_unit_counts(enemies, enemy_buildings).harvester
        first == priority(s, cu, enemy_harvesters, income_below_50(units))
        chosen == IF pick = None THEN s ELSE produce_obj(s, pick)
        timed ==
            IF chosen.production_queue # <<>> /\ chosen.production_timer = 0
            THEN [ chosen EXCEPT !.production_timer =
                      get_production_time(Head(chosen.production_queue), friendly_buildings) ]
            ELSE chosen
        pos == find_valid_building_position(timed.pending_building, friendly_buildings,
                   enemy_buildings, fields, AiHq(s.global_buildings, team), team)
    IN  IF first # None THEN produce_obj(s, first)
        ELSE IF s.iron <= 0 THEN s
        ELSE IF timed.pending_building # None
                /\ timed.pending_building_pos \in { NoPos, <<0, 0>> }
        THEN place_building([ timed EXCEPT !.pending_building_pos = pos ], pos,
                            timed.pending_building, team, id)
        ELSE timed

\* Bounds of the AI scenarios
MaxAiTicks == 3
MaxWave == 3

\* the other team
Enemy(team) == IF team = GDI THEN NOD ELSE GDI

\* AI.update.  surprise is the outcome of random.random() < 0.1, wave that of
\* wave_timer >= wave_interval for the interval drawn from 150..250, pick that
\* of random.choice.
AI_update_fields(a, s, team, surprise, wave, pick, id) ==
    LET friendly_buildings == TeamBuildings(s.global_buildings, team)
        enemy_buildings == TeamBuildings(s.global_buildings, Enemy(team))
        counts == enemy_unit_counts(enemy_units, enemy_buildings)
        state == determine_state(s, a.wave_number, AiHq(s.global_buildings, team),
                                 s.friendly_units, enemy_units, enemy_buildings)
        decide == a.timer + 1 >= ACTION_INTERVAL
        a1 == [ a EXCEPT !.timer = IF decide THEN 0 ELSE @ + 1,
                         !.wave_timer = @ + 1,
                         !.surprise_attack_cooldown = Max(0, @ - 1),
                         !.state = state ]
        s1 == IF decide
              THEN produce_objs(s, state, s.friendly_units, friendly_buildings,
                                enemy_units, enemy_buildings, iron_fields, team, pick, id)
              ELSE s
        coordinate_attack(b) == [ b EXCEPT !.wave_timer = 0, !.wave_number = @ + 1 ]
        a2 == IF /\ a1.surprise_attack_cooldown <= 0
                 /\ counts.tank + counts.infantry + counts.turret < 5
                 /\ surprise
              THEN [ coordinate_attack(a1) EXCEPT !.surprise_attack_cooldown = 300 ]
              ELSE IF wave THEN coordinate_attack(a1)
              ELSE a1
    IN  [ ai |-> a2, s |-> s1, decided |-> decide ]

\* the classes random.choice can return at this update: None when
\* production_options is empty or is not reached
Picks(a, s, team) ==
    LET friendly_buildings == TeamBuildings(s.global_buildings, team)
        enemy_buildings == TeamBuildings(s.global_buildings, Enemy(team))
        state == determine_state(s, a.wave_number, AiHq(s.global_buildings, team),
                                 s.friendly_units, enemy_units, enemy_buildings)
        options ==
            production_options(state, s,
                current_units(s, s.friendly_units, friendly_buildings),
                enemy_unit_counts(enemy_units, enemy_buildings).harvester)
    IN  IF options = {} THEN { None } ELSE options

\* the main loop's call of ai.update, after the buildings' updates
AI_update ==
    /\ phase = "ai"
    /\ hqTeam = NOD
    /\ \E surprise \in BOOLEAN, wave \in BOOLEAN, pick \in Picks(ai, HQState, hqTeam) :
          /\ surprise => ai.wave_number < MaxWave
          /\ wave => ai.wave_timer + 1 >= 150 /\ ai.wave_number < MaxWave
          /\ ai.wave_timer + 1 >= 250 => wave
          /\ \E r \in { AI_update_fields(ai, HQState, hqTeam, surprise, wave, pick,
                                           NewId(global_buildings, selected_building)) } :
                 /\ ai' = r.ai
                 /\ SetHQ(r.s)
                 /\ decisions' = IF r.decided THEN decisions + 1 ELSE decisions
    /\ phase' = "buildings"
    /\ ticks' = ticks + 1
    /\ UNCHANGED <<hqTeam, headTicks, lastDone, enemy_units, iron_fields, uiVars, fogVars, gameVars>>

\* the building updates of an iteration, of which the AI's headquarters is one
AI_buildings_update ==
    /\ phase = "buildings"
    /\ hqTeam = NOD
    /\ ticks < MaxAiTicks
    /\ IF HqAlive(global_buildings, hqTeam) THEN HQ_update
       ELSE UNCHANGED <<hqVars, headTicks, lastDone>>
    /\ phase' = "ai"
    /\ UNCHANGED <<ticks, ai, enemy_units, iron_fields, decisions, uiVars, fogVars, gameVars>>

IronField(x, y, resources) ==
    [ x |-> x, y |-> y, resources |-> resources, regen_timer |-> 500 ]

\* the units of team the main program creates: three infantry beside the
\* headquarters and a harvester carrying cargo iron
StartingUnits(team, cargo) ==
    LET o == HqPos(team)
    IN  << Unit("Infantry", team, <<o[1] + 50, o[2]>>),
           Unit("Infantry", team, <<o[1] + 70, o[2]>>),
           Unit("Infantry", team, <<o[1] + 90, o[2]>>),
           [ Unit("Harvester", team, <<o[1] + 100, o[2] + 100>>) EXCEPT !.iron = cargo ] >>

\* what the AI's headquarters holds when the scenario starts
AiQueues ==
    { [ queue |-> <<>>, timer |-> 0, pending |-> None ],
      [ queue |-> <<>>, timer |-> 0, pending |-> "Barracks" ],
      [ queue |-> <<"Barracks">>, timer |-> TimerUnit, pending |-> None ],
      [ queue |-> <<"Infantry">>, timer |-> 2 * TimerUnit, pending |-> "PowerPlant" ] }

\* the roster after the AI's headquarters was destroyed: its four support
\* buildings are left
HqDestroyed == SelectSeq(Layout(NOD, 4), LAMBDA b : b.cls # "Headquarters" \/ b.team # NOD)

\* the queue of the destroyed headquarters, which Headquarters.update no
\* longer drains: the game goes on, the harvesters go on delivering iron to
\* self.hq, and the AI has queued a Harvester at each decision it could pay for
StrandedQueue ==
    [ queue |-> [ i \in 1..MAX_PRODUCTION_QUEUE_LENGTH |-> "Harvester" ],
      timer |-> TimerUnit, pending |-> None ]

\* rosters of a game in progress: the headquarters alone, undamaged or at half
\* health; with a Barracks and a WarFactory; with the WarFactory left after
\* the Barracks was destroyed; with four support buildings; with the four
\* support buildings after the headquarters was destroyed
AiLayouts ==
    { Layout(NOD, 0), [ Layout(NOD, 0) EXCEPT ![2].health = 600 ], Layout(NOD, 2),
      SelectSeq(Layout(NOD, 2), LAMBDA b : b.cls # "Barracks"), Layout(NOD, 4),
      HqDestroyed }

\* The AI's side in the middle of a game, one or two updates before a
\* production decision or right after one
AiInit ==
    /\ ticks = 0
    /\ hqTeam = NOD
    /\ iron \in { 0, 250, 450, 600, 1500 }
    /\ global_buildings \in AiLayouts
    /\ friendly_units \in { <<>>, StartingUnits(NOD, 0), StartingUnits(NOD, 100),
                            StartingUnits(NOD, 100) \o Army(NOD, LargeArmy) }
    /\ enemy_units \in { StartingUnits(GDI, 0),
                         Append(StartingUnits(GDI, 0), Unit("Tank", GDI, <<1000, 500>>)) }
    /\ \E q \in AiQueues \cup { StrandedQueue } :
          /\ q = StrandedQueue => global_buildings = HqDestroyed
          /\ production_queue = q.queue
          /\ production_timer = q.timer
          /\ pending_building = q.pending
    /\ pending_building_pos = NoPos
    /\ power_output = Headquarters_power_output(TeamBuildings(global_buildings, NOD))
    /\ power_usage =
         Headquarters_power_usage(HqId(NOD), friendly_units,
                                  TeamBuildings(global_buildings, NOD))
    /\ headTicks = <<0, 0>>
    /\ lastDone = NoItem
    /\ iron_fields \in { <<IronField(1100, 600, 5000)>>, <<IronField(200, 150, 5000)>> }
    /\ \E timer \in { 0, ACTION_INTERVAL - 2 }, wave_number \in { 0, 2 } :
          /\ wave_number = 0 \/ timer # 0
          /\ ai = [ timer |-> timer, wave_timer |-> timer,
                    wave_number |-> wave_number,
                    surprise_attack_cooldown |-> 0,
                    state |-> determine_state(HQState, wave_number,
                                  AiHq(global_buildings, NOD), friendly_units,
                                  enemy_units, TeamBuildings(global_buildings, GDI)) ]
    /\ phase = "buildings"
    /\ decisions = 0
    /\ UiIdle
    /\ FogIdle
    /\ GameIdle

NextAI == AI_buildings_update \/ AI_update

SpecAI == AiInit /\ [][NextAI]_vars

\* C8: whenever AI.produce_objs runs while the AI has no living Barracks and
\* no Barracks in its production queue and its headquarters holds at least
\* Barracks.COST iron, the decision appends exactly one item, Barracks, to the
\* queue, whatever the AI state and whatever else is eligible.
C8_BarracksFirst ==
    [][ ( /\ decisions' = decisions + 1
          /\ Len(LivingOf(TeamBuildings(global_buildings, hqTeam), "Barracks")) = 0
          /\ \A i \in 1..Len(production_queue) : production_queue[i] # "Barracks"
          /\ iron >= COST["Barracks"] )
        => production_queue' = Append(production_queue, "Barracks") ]_vars

\* a decision has enqueued Barracks although the AI was BROKE and another
\* class, WarFactory, was missing and affordable as well
C8_Witness ==
    /\ decisions > 0
    /\ ai.state = "BROKE"
    /\ ai.timer = 0
    /\ production_queue # <<>>
    /\ production_queue[Len(production_queue)] = "Barracks"
    /\ Len(LivingOf(TeamBuildings(global_buildings, hqTeam), "WarFactory")) = 0
    /\ iron >= COST["WarFactory"]

(***************************************************************************)
(* Fog of war (src/fog_of_war.py)                                          *)
(***************************************************************************)
UNIT_EXPLORATION_RADIUS == 150
BUILDING_EXPLORATION_RADIUS == 200

\* len(self.explored) and len(self.explored[0])
GridW == MAP_WIDTH \div TILE_SIZE

GridH == MAP_HEIGHT \div TILE_SIZE

\* FogOfWar._tile: the tile containing a position
tile(pos) == <<pos[1] \div TILE_SIZE, pos[2] \div TILE_SIZE>>

\* FogOfWar._reveal: the tiles that one call sets True in both layers
reveal(center, radius) ==
    LET t == tile(center)
        radius_tiles == radius \div TILE_SIZE
        xs == Max(0, t[1] - radius_tiles) .. (Min(GridW, t[1] + radius_tiles + 1) - 1)
        ys == Max(0, t[2] - radius_tiles) .. (Min(GridH, t[2] + radius_tiles + 1) - 1)
    IN  { <<x, y>> \in xs \X ys :
            Sq(center[1] - (x * TILE_SIZE + TILE_SIZE \div 2))
              + Sq(center[2] - (y * TILE_SIZE + TILE_SIZE \div 2)) <= Sq(radius) }

\* every tile revealed by one FogOfWar.update
revealed(units, buildings) ==
    UNION ({ reveal(u, UNIT_EXPLORATION_RADIUS) : u \in units }
           \cup { reveal(b, BUILDING_EXPLORATION_RADIUS) : b \in buildings })

\* a faulty update that rebuilds explored together with visible
update_explored_reset(old, units, buildings) == revealed(units, buildings)

\* FogOfWar.update, the explored layer: kept, and extended by every reveal
update_explored(old, units, buildings) == old \cup revealed(units, buildings)

\* FogOfWar.update, the visible layer: reset, then set by every reveal
update_visible(units, buildings) == revealed(units, buildings)

\* Bounds of the fog scenarios
MaxFogUnits == 2
MaxFogBuildings == 1
MaxFogUpdates == 3

\* centres of friendly units the updates draw from: a starting infantry of GDI,
\* a unit in the middle of the map and an infantry in each far corner
FogUnitCentres == { <<350, 300>>, <<800, 400>>, <<8, 8>>, <<1592, 792>> }

\* centres of friendly buildings: the GDI headquarters
FogBuildingCentres == { <<340, 340>> }

FogInit ==
    /\ FogIdle
    /\ GameIdle
    /\ HqIdle
    /\ UiIdle
    /\ AiIdle
    /\ ticks = 0

FogOfWar_update ==
    /\ fogUpdates < MaxFogUpdates
    /\ \E units \in SUBSET FogUnitCentres, buildings \in SUBSET FogBuildingCentres :
         /\ Cardinality(units) <= MaxFogUnits
         /\ Cardinality(buildings) <= MaxFogBuildings
         /\ explored' = update_explored(explored, units, buildings)
         /\ visible' = update_visible(units, buildings)
    /\ fogUpdates' = fogUpdates + 1
    /\ UNCHANGED <<hqVars, hqHistory, uiVars, aiVars, gameVars>>

NextFog == FogOfWar_update

SpecFogOfWar == FogInit /\ [][NextFog]_vars

\* C5: once a tile is explored it stays explored after every FogOfWar.update,
\* whatever units and buildings the update is given (none included)
C5_ExploredMonotonic == [][explored \subseteq explored']_vars

\* C5 witness: after an update, a tile is still explored although the latest
\* update no longer makes it visible
C5_Witness ==
    /\ fogUpdates >= 2
    /\ \E t \in explored : t \notin visible

(***************************************************************************)
(* The battlefield: units, their movement and their updates                *)
(*                                                                         *)
(* A unit is a record whose x, y is the centre of its rect (the images of  *)
(* all units have even sides); a building keeps its topleft.  Every unit   *)
(* and building has an id; target_unit holds the id of its referent and 0  *)
(* stands for None.  The operators below take the world w: the groups, the *)
(* graveyard, the iron fields and the iron of the headquarters under       *)
(* study.  Only what drawing reads (under_attack, recoil, angle, images,   *)
(* particles) is left out.                                                 *)
(***************************************************************************)
ARRIVAL_RADIUS == 5
IRON_TRANSFER_RANGE == 30
HIT_RADIUS == 3

\* class attributes and __init__ values; speed2 is twice the speed
InfantryStats(team) ==
    [ ATTACK_RANGE |-> 50, ATTACK_COOLDOWN_PERIOD |-> 25, UNIT_TARGETING_RANGE |-> 200,
      speed2 |-> IF team = GDI THEN 7 ELSE 8, health |-> IF team = GDI THEN 100 ELSE 60,
      attack_damage |-> 8 ]

TankStats(team) ==
    [ ATTACK_RANGE |-> 200, ATTACK_COOLDOWN_PERIOD |-> 50, UNIT_TARGETING_RANGE |-> 250,
      speed2 |-> IF team = GDI THEN 5 ELSE 6, health |-> IF team = GDI THEN 200 ELSE 120,
      attack_damage |-> IF team = GDI THEN 20 ELSE 15 ]

HarvesterStats ==
    [ ATTACK_RANGE |-> 50, attack_cooldown |-> 30, speed2 |-> 5, health |-> 300,
      attack_damage |-> 10, capacity |-> 100, harvest_time |-> 40 ]

TurretStats ==
    [ ATTACK_RANGE |-> 180, attack_cooldown |-> 25, attack_damage |-> 15, health |-> 500 ]

ProjectileStats == [ speed2 |-> 12, size |-> <<10, 5>> ]

Stats(cls, team) ==
    CASE cls = "Infantry" -> InfantryStats(team)
      [] cls = "Tank" -> TankStats(team)
      [] cls = "Harvester" -> HarvesterStats
      [] cls = "Turret" -> TurretStats

\* GameObject.__init__ followed by the __init__ of the unit's class
GameObject(id, cls, team, pos, health) ==
    [ id |-> id, cls |-> cls, team |-> team, x |-> pos[1], y |-> pos[2],
      health |-> health, cooldown_timer |-> 0, target |-> NoPos, target_unit |-> 0,
      formation_target |-> NoPos, selected |-> FALSE,
      state |-> "MOVING_TO_FIELD", target_field |-> 0,
      harvest_time |-> HarvesterStats.harvest_time, iron |-> 0 ]

\* GameObject.position
position_of(e) == IF e.cls \in BuildingClasses THEN position(e) ELSE <<e.x, e.y>>

\* GameObject.rect
rect_of(e) ==
    IF e.cls \in BuildingClasses THEN rectOf(e)
    ELSE Rect(<<e.x - SIZE[e.cls][1] \div 2, e.y - SIZE[e.cls][2] \div 2>>, SIZE[e.cls])

\* the object a reference (an id) points at, in a group or out of all of them
deref(w, id) ==
    LET all == w.units \o w.buildings \o w.graveyard
    IN  all[CHOOSE i \in 1..Len(all) : all[i].id = id]

\* bool(reference) alone
alive_or_dead(w, id) == id # 0

\* bool(reference) and reference.health > 0
alive(w, id) == id # 0 /\ deref(w, id).health > 0

\* bool(Vector2): a vector is true unless it is None or the zero vector
is_set(p) == p # NoPos /\ p # <<0, 0>>

\* the groups a unit's team looks at
TeamUnits(units, team) == SelectSeq(units, LAMBDA u : u.team = team)

EnemyUnits(units, team) == SelectSeq(units, LAMBDA u : u.team # team)

\* sprite.kill(): out of every group; references to the object stay usable
kill(w, id) ==
    IF \E i \in 1..Len(w.graveyard) : w.graveyard[i].id = id THEN w
    ELSE [ w EXCEPT !.units = SelectSeq(@, LAMBDA u : u.id # id),
                    !.buildings = SelectSeq(@, LAMBDA b : b.id # id),
                    !.graveyard = Append(@, deref(w, id)) ]

\* assignment to the fields of the unit or building e.id
store(w, e) ==
    LET put(objs) == [ i \in DOMAIN objs |-> IF objs[i].id = e.id THEN e ELSE objs[i] ]
    IN  [ w EXCEPT !.units = put(@), !.buildings = put(@), !.graveyard = put(@) ]

\* the same without the kill
damage_without_kill(w, id, damage) ==
    store(w, [ deref(w, id) EXCEPT !.health = @ - damage ])

\* e.under_attack = True
set_under_attack(w, id) == [ w EXCEPT !.under_attack = @ \cup { id } ]

\* target.health -= damage, and target.kill() if that leaves health <= 0
damage_and_kill(w, id, damage) ==
    LET hurt == store(w, [ deref(w, id) EXCEPT !.health = @ - damage ])
    IN  IF deref(hurt, id).health <= 0 THEN kill(hurt, id) ELSE hurt
\* int(speed * c / dist), the whole pixels rect.x or rect.y moves by for the
\* component c of a displacement of squared length d2: the floor of the
\* quotient, computed on the squares (speed is at most 6)
step(speed2, c, d2) ==
    LET fits(k) == 4 * k * k * d2 <= speed2 * speed2 * c * c
        covers(k) == speed2 * speed2 * c * c <= 4 * k * k * d2
    IN  IF c >= 0
        THEN CHOOSE k \in 0..6 : fits(k) /\ \A j \in 0..6 : fits(j) => j <= k
        ELSE - (CHOOSE k \in 0..6 : covers(k) /\ \A j \in 0..6 : covers(j) => k <= j)

\* the body of each branch of move_toward: a step towards dest unless within
\* ARRIVAL_RADIUS, then rect.clamp_ip to the map
advance(u, dest) ==
    LET d2 == Dist2(<<u.x, u.y>>, dest)
        speed2 == Stats(u.cls, u.team).speed2
        far == d2 > Sq(ARRIVAL_RADIUS)
        nx == IF far THEN u.x + step(speed2, dest[1] - u.x, d2) ELSE u.x
        ny == IF far THEN u.y + step(speed2, dest[2] - u.y, d2) ELSE u.y
        hw == SIZE[u.cls][1] \div 2
        hh == SIZE[u.cls][2] \div 2
    IN  [ u EXCEPT !.x = Max(hw, Min(MAP_WIDTH - hw, nx)),
                   !.y = Max(hh, Min(MAP_HEIGHT - hh, ny)) ]

\* a move_toward that follows the formation target before anything else
move_toward_formation_first(u, w) ==
    IF is_set(u.formation_target) THEN advance(u, u.formation_target)
    ELSE IF is_set(u.target) /\ alive(w, u.target_unit)
    THEN IF Dist2(<<u.x, u.y>>, u.target) > Sq(Stats(u.cls, u.team).ATTACK_RANGE)
         THEN advance(u, u.target)
         ELSE [ u EXCEPT !.target = NoPos ]
    ELSE IF is_set(u.target) THEN advance(u, u.target)
    ELSE u

move_toward(u, w) ==
    IF is_set(u.target) /\ alive(w, u.target_unit)
    THEN IF Dist2(<<u.x, u.y>>, u.target) > Sq(Stats(u.cls, u.team).ATTACK_RANGE)
         THEN advance(u, u.target)
         ELSE [ u EXCEPT !.target = NoPos ]
    ELSE IF is_set(u.formation_target) THEN advance(u, u.formation_target)
    ELSE IF is_set(u.target) THEN advance(u, u.target)
    ELSE u

\* GameObject.update of a mobile unit
GameObject_update(u, w) ==
    LET moved == move_toward(u, w)
    IN  [ moved EXCEPT !.cooldown_timer = IF @ > 0 THEN @ - 1 ELSE @ ]

\* the part Infantry.update and Tank.update add to GameObject.update: follow
\* a living target_unit while it is within UNIT_TARGETING_RANGE, forget it
\* when it is not
track_target(g, w) ==
    IF alive(w, g.target_unit)
    THEN IF Dist2(<<g.x, g.y>>, position_of(deref(w, g.target_unit)))
              <= Sq(Stats(g.cls, g.team).UNIT_TARGETING_RANGE)
         THEN store(w, [ g EXCEPT !.target = position_of(deref(w, g.target_unit)) ])
         ELSE store(w, [ g EXCEPT !.target = NoPos, !.target_unit = 0 ])
    ELSE store(w, g)

Infantry_update(u, w) == track_target(GameObject_update(u, w), w)

Tank_update(u, w) == track_target(GameObject_update(u, w), w)

\* the scan "closest_target, min_dist = None, inf; for e in candidates: if
\* dist in range and dist < min_dist": the id of the first of the nearest
\* candidates in range, 0 when none is; the range test is dist < r for the
\* Harvester and the Turret (strict) and dist <= r for handle_attacks
closest(origin, candidates, r, strict) ==
    LET d(e) == Dist2(origin, position_of(e))
        ok == SelectSeq(candidates, LAMBDA e : IF strict THEN d(e) < Sq(r) ELSE d(e) <= Sq(r))
    IN  IF ok = <<>> THEN 0
        ELSE ok[CHOOSE i \in 1..Len(ok) :
                  \A j \in 1..Len(ok) : d(ok[j]) > d(ok[i]) \/ (d(ok[j]) = d(ok[i]) /\ j >= i)].id

\* min(fields, key=distance): the index of the first of the nearest fields
nearest_field(origin, fields, among) ==
    CHOOSE i \in among :
      \A j \in among : LET di == Dist2(origin, field_position(fields[i]))
                           dj == Dist2(origin, field_position(fields[j]))
                       IN  dj > di \/ (dj = di /\ j >= i)

\* Harvester.update after GameObject.update: the defence against infantry
Harvester_defend(g, w, victim) ==
    IF victim = 0 THEN store(w, g)
    ELSE store(damage_and_kill(w, victim, HarvesterStats.attack_damage),
               [ g EXCEPT !.cooldown_timer = HarvesterStats.attack_cooldown ])

\* Harvester.update, its last part: the cycle of the harvester id
Harvester_cycle(w, id) ==
    LET g == deref(w, id)
        here == <<g.x, g.y>>
        fields == w.fields
    IN  CASE g.state = "MOVING_TO_FIELD" ->
               IF fields = <<>> THEN [ w EXCEPT !.crashed = TRUE ]
               ELSE LET rich == { i \in DOMAIN fields : fields[i].resources >= 1000 }
                        f == IF g.target_field = 0 \/ fields[g.target_field].resources <= 0
                             THEN nearest_field(here, fields,
                                                IF rich # {} THEN rich ELSE DOMAIN fields)
                             ELSE g.target_field
                    IN  IF Dist2(here, field_position(fields[f])) < Sq(IRON_TRANSFER_RANGE)
                        THEN store(w, [ g EXCEPT !.target_field = f, !.state = "HARVESTING",
                                                 !.target = NoPos,
                                                 !.harvest_time = HarvesterStats.harvest_time ])
                        ELSE store(w, [ g EXCEPT !.target_field = f,
                                                 !.target = field_position(fields[f]) ])
          [] g.state = "HARVESTING" ->
               IF g.harvest_time > 0 THEN store(w, [ g EXCEPT !.harvest_time = @ - 1 ])
               ELSE IF g.target_field = 0 THEN [ w EXCEPT !.crashed = TRUE ]
               ELSE LET harvested == Min(fields[g.target_field].resources,
                                         HarvesterStats.capacity)
                    IN  [ store(w, [ g EXCEPT !.iron = @ + harvested,
                                              !.state = "RETURNING_TO_HQ",
                                              !.target = position(IF g.team = GDI THEN GdiHq
                                                                  ELSE NodHq) ])
                          EXCEPT !.fields[g.target_field].resources = @ - harvested ]
          [] g.state = "RETURNING_TO_HQ" ->
               IF ~ is_set(g.target) THEN [ w EXCEPT !.crashed = TRUE ]
               ELSE IF Dist2(here, g.target) < Sq(IRON_TRANSFER_RANGE)
               THEN [ store(w, [ g EXCEPT !.iron = 0, !.state = "MOVING_TO_FIELD",
                                          !.target = NoPos ])
                      EXCEPT !.iron = IF g.team = w.hqTeam THEN @ + g.iron ELSE @ ]
               ELSE w

\* the infantry of the other team a harvester standing at here strikes
Harvester_victim(g, w) ==
    IF g.cooldown_timer # 0 THEN 0
    ELSE closest(<<g.x, g.y>>,
                 SelectSeq(EnemyUnits(w.units, g.team),
                           LAMBDA e : e.health > 0 /\ e.cls = "Infantry"),
                 HarvesterStats.ATTACK_RANGE, TRUE)

Harvester_moved(g, w) == Harvester_cycle(Harvester_defend(g, w, Harvester_victim(g, w)), g.id)

Harvester_update(u, w) == Harvester_moved(GameObject_update(u, w), w)
\* "for unit in global_units: unit.update(...)" over the snapshot ids of the
\* group; a unit killed earlier in the loop changes nothing but itself
RECURSIVE update_units(_, _)
update_units(w, ids) ==
    IF ids = <<>> \/ w.crashed THEN w
    ELSE LET here == SelectSeq(w.units, LAMBDA u : u.id = Head(ids))
             next == IF here = <<>> THEN w
                     ELSE CASE here[1].cls = "Infantry" -> Infantry_update(here[1], w)
                            [] here[1].cls = "Tank" -> Tank_update(here[1], w)
                            [] here[1].cls = "Harvester" -> Harvester_update(here[1], w)
         IN  update_units(next, Tail(ids))

\* IronField.update of every field
iron_fields_update(fields) ==
    [ i \in DOMAIN fields |->
        IF fields[i].regen_timer > 0 THEN [ fields[i] EXCEPT !.regen_timer = @ - 1 ]
        ELSE [ fields[i] EXCEPT !.resources = Min(5000, @ + 15), !.regen_timer = 500 ] ]

\* Projectile(position, target_unit, damage, team) added to the group; the
\* rect of the image, 10 by 5, is centred on position
add_projectile(w, shooter, target_id) ==
    LET from == position_of(shooter)
        id == <<shooter.id, w.ticks>>
    IN  [ w EXCEPT !.projectiles =
                     Append(@, [ id |-> id, team |-> shooter.team, x |-> from[1] - 5,
                                 y |-> from[2] - 2, target_unit |-> target_id,
                                 damage |-> Stats(shooter.cls, shooter.team).attack_damage ]),
                   !.fired = Append(@, [ id |-> id, hits |-> 0 ]) ]

\* Building.update, and Turret.update after it
Building_update(b, w) ==
    LET cooled == [ b EXCEPT !.cooldown_timer = IF @ > 0 THEN @ - 1 ELSE @ ]
        w1 == IF cooled.health <= 0 THEN kill(store(w, cooled), b.id) ELSE store(w, cooled)
    IN  IF b.cls # "Turret" THEN w1
        ELSE LET t == [ cooled EXCEPT !.cooldown_timer = IF @ > 0 THEN @ - 1 ELSE @ ]
                 living == SelectSeq(EnemyUnits(w1.units, b.team), LAMBDA u : u.health > 0)
                 victim == closest(position(b), living, TurretStats.ATTACK_RANGE, TRUE)
             IN  IF t.cooldown_timer # 0 THEN store(w1, t)
                 ELSE IF victim = 0 THEN store(w1, [ t EXCEPT !.target_unit = 0 ])
                 ELSE add_projectile(
                        store(w1, [ t EXCEPT !.target_unit = victim,
                                             !.cooldown_timer = TurretStats.attack_cooldown ]),
                        b, victim)

\* "for building in global_buildings: building.update(...)"
RECURSIVE update_buildings(_, _)
update_buildings(w, bs) ==
    IF bs = <<>> THEN w ELSE update_buildings(Building_update(Head(bs), w), Tail(bs))

\* the same without the removal
Projectile_keep(w, p) == w

\* projectile.kill()
Projectile_kill(w, p) ==
    [ w EXCEPT !.projectiles = SelectSeq(@, LAMBDA q : q.id # p.id) ]

\* Projectile.update: a step of SPEED towards the living target_unit; the
\* projectile removes itself within HIT_RADIUS of it, or when it is dead
Projectile_update(p, w) ==
    LET here == <<p.x + 5, p.y + 2>>
        there == position_of(deref(w, p.target_unit))
        d2 == Dist2(here, there)
    IN  IF alive(w, p.target_unit) /\ d2 > Sq(HIT_RADIUS)
        THEN [ w EXCEPT !.projectiles =
                 [ i \in DOMAIN @ |->
                     IF @[i].id # p.id THEN @[i]
                     ELSE [ p EXCEPT !.x = @ + step(ProjectileStats.speed2, there[1] - here[1], d2),
                                     !.y = @ + step(ProjectileStats.speed2, there[2] - here[2], d2) ] ] ]
        ELSE Projectile_kill(w, p)

\* projectiles.update(particles)
RECURSIVE update_projectiles(_, _)
update_projectiles(w, ps) ==
    IF ps = <<>> THEN w ELSE update_projectiles(Projectile_update(Head(ps), w), Tail(ps))
\* handle_collisions: every ordered pair (unit, other) of the group in turn,
\* k counting the pairs.  rect.x += v and rect.x -= v store int(rect.x + v)
\* with |v| <= 0.5, so a coordinate either stays or drops by one: unit's
\* when other lies on its lower side, other's when unit does
RECURSIVE handle_collisions(_, _, _)
handle_collisions(w, ids, k) ==
    IF k >= Len(ids) * Len(ids) THEN w
    ELSE LET unit == deref(w, ids[(k \div Len(ids)) + 1])
             other == deref(w, ids[(k % Len(ids)) + 1])
             dx == other.x - unit.x
             dy == other.y - unit.y
             both == unit.cls = "Harvester" /\ other.cls = "Harvester"
             drop(e, cx, cy) ==
                 [ e EXCEPT !.x = IF cx /\ @ - SIZE[e.cls][1] \div 2 >= 1 THEN @ - 1 ELSE @,
                            !.y = IF cy /\ @ - SIZE[e.cls][2] \div 2 >= 1 THEN @ - 1 ELSE @ ]
             pushed == store(store(w, drop(unit, dx < 0, dy < 0)), drop(other, dx > 0, dy > 0))
         IN  IF unit.id # other.id /\ colliderect(rect_of(unit), rect_of(other))
                /\ (dx # 0 \/ dy # 0)
             THEN handle_collisions(pushed, ids, k + 1)
             ELSE handle_collisions(w, ids, k + 1)

\* as fire_projectile, with a second shell
fire_projectile_twice(w, unit, target_id) ==
    add_projectile(add_projectile(w, unit, target_id), unit, target_id)

\* the Tank branch of handle_attacks
fire_projectile(w, unit, target_id) == add_projectile(w, unit, target_id)

\* a selection that takes the nearest enemy whatever target_unit is
closest_target_forgetful(w, unit) ==
    closest(<<unit.x, unit.y>>,
            SelectSeq(w.units \o w.buildings,
                      LAMBDA obj : obj.team # unit.team /\ obj.health > 0),
            Stats(unit.cls, unit.team).ATTACK_RANGE, FALSE)

\* the target a unit with cooldown 0 attacks: its target_unit while that is
\* alive and in range, else the nearest living enemy in range; 0 for none
closest_target(w, unit) ==
    IF alive(w, unit.target_unit)
       /\ Dist2(<<unit.x, unit.y>>, position_of(deref(w, unit.target_unit)))
            <= Sq(Stats(unit.cls, unit.team).ATTACK_RANGE)
    THEN unit.target_unit
    ELSE closest(<<unit.x, unit.y>>,
                 SelectSeq(w.units \o w.buildings,
                           LAMBDA obj : obj.team # unit.team /\ obj.health > 0),
                 Stats(unit.cls, unit.team).ATTACK_RANGE, FALSE)

\* what the unit does to target_id: a Tank fires, an Infantry strikes, and
\* forgets a target it has killed
strike(w, aimed, target_id) ==
    IF aimed.cls = "Tank" THEN fire_projectile(store(w, aimed), aimed, target_id)
    ELSE IF deref(w, target_id).health <= Stats(aimed.cls, aimed.team).attack_damage
    THEN store(damage_and_kill(set_under_attack(w, target_id), target_id,
                               Stats(aimed.cls, aimed.team).attack_damage),
               [ aimed EXCEPT !.target = NoPos, !.target_unit = 0 ])
    ELSE store(damage_and_kill(set_under_attack(w, target_id), target_id,
                               Stats(aimed.cls, aimed.team).attack_damage),
               aimed)

\* the body of the loop of handle_attacks for one unit of team_units
attack(w, unit, target_id) ==
    IF unit.cls \notin { "Tank", "Infantry" } \/ unit.cooldown_timer # 0 \/ target_id = 0
    THEN w
    ELSE strike(w, [ unit EXCEPT !.target_unit = target_id,
                                 !.target = position_of(deref(w, target_id)),
                                 !.cooldown_timer =
                                     Stats(unit.cls, unit.team).ATTACK_COOLDOWN_PERIOD ],
                target_id)

\* handle_projectiles: the first living enemy unit, then building, whose rect
\* the projectile's rect overlaps takes the damage
RECURSIVE handle_projectiles(_, _)
handle_projectiles(w, ps) ==
    IF ps = <<>> THEN w
    ELSE LET p == Head(ps)
             enemies == SelectSeq(w.units, LAMBDA u : u.team # p.team /\ u.health > 0)
                        \o SelectSeq(w.buildings, LAMBDA b : b.team # p.team /\ b.health > 0)
             met == SelectSeq(enemies,
                              LAMBDA e : colliderect(Rect(<<p.x, p.y>>, ProjectileStats.size),
                                                     rect_of(e)))
             counted == [ w EXCEPT !.fired = [ i \in DOMAIN @ |->
                                     IF @[i].id = p.id THEN [ @[i] EXCEPT !.hits = @ + 1 ]
                                     ELSE @[i] ] ]
         IN  IF met = <<>> THEN handle_projectiles(w, Tail(ps))
             ELSE handle_projectiles(
                    Projectile_kill(damage_and_kill(set_under_attack(counted, met[1].id),
                                                    met[1].id, p.damage), p),
                    Tail(ps))
\* the right-click order of the main loop when no building is pending: the
\* selected units, in the order of the group, get the formation positions
\* around world_pos; an enemy or an iron field under the cursor redirects them
right_click_order(w, world_pos) ==
    LET under(r) == /\ r.x <= world_pos[1] /\ world_pos[1] < r.x + r.w
                    /\ r.y <= world_pos[2] /\ world_pos[2] < r.y + r.h
        clicked_field == SelectSeq(w.fields, LAMBDA f : under(Rect(<<f.x, f.y>>, <<40, 40>>)))
        clicked_enemy_unit ==
            SelectSeq(w.units, LAMBDA u : u.team # GDI /\ under(rect_of(u)))
        clicked_enemy_building ==
            SelectSeq(w.buildings, LAMBDA b : b.team # GDI /\ under(rect_of(b)))
        selected_units == SelectSeq(w.units, LAMBDA u : u.team = GDI /\ u.selected)
        rank(u) == CHOOSE i \in 1..Len(selected_units) : selected_units[i].id = u.id
        pos(u) == <<world_pos[1] + 20 * ((rank(u) - 1) % 5) - 40,
                    world_pos[2] + 20 * ((rank(u) - 1) \div 5) - 30>>
        ordered(u) ==
            IF clicked_enemy_unit # <<>>
            THEN [ u EXCEPT !.target = position_of(clicked_enemy_unit[1]),
                            !.formation_target = pos(u),
                            !.target_unit = clicked_enemy_unit[1].id ]
            ELSE IF clicked_enemy_building # <<>>
            THEN [ u EXCEPT !.target = position_of(clicked_enemy_building[1]),
                            !.formation_target = pos(u),
                            !.target_unit = clicked_enemy_building[1].id ]
            ELSE IF clicked_field # <<>>
            THEN [ u EXCEPT !.target = field_position(clicked_field[1]),
                            !.formation_target = NoPos, !.target_unit = 0 ]
            ELSE [ u EXCEPT !.target = pos(u), !.formation_target = pos(u),
                            !.target_unit = 0 ]
    IN  [ w EXCEPT !.units = [ i \in DOMAIN @ |->
                                 IF @[i].team = GDI /\ @[i].selected /\ rank(@[i]) <= 20
                                 THEN ordered(@[i]) ELSE @[i] ] ]

\* AI.coordinate_attack as far as the units see it: every Tank and Infantry
\* of the AI without a target is sent against target_id (tactics balanced,
\* all_in and flank; the waves of the scenarios are smaller than wave_size),
\* or back to the headquarters when target_id is 0 (tactic defensive); the
\* random offset of the destination is an input
coordinate_attack(w, target_id, offset) ==
    LET dest == IF target_id = 0 THEN position(NodHq) ELSE position_of(deref(w, target_id))
    IN  [ w EXCEPT !.units = [ i \in DOMAIN @ |->
                                 IF @[i].team = NOD /\ @[i].cls \in { "Tank", "Infantry" }
                                    /\ ~ is_set(@[i].target)
                                 THEN [ @[i] EXCEPT !.target_unit = target_id,
                                                    !.target = <<dest[1] + offset[1],
                                                                 dest[2] + offset[2]>> ]
                                 ELSE @[i] ] ]

\* the groups and fields the passes of the main loop work on
World ==
    [ units |-> global_units, buildings |-> global_buildings, projectiles |-> projectiles,
      graveyard |-> graveyard, fired |-> fired, fields |-> iron_fields, iron |-> iron,
      hqTeam |-> hqTeam, ticks |-> ticks, under_attack |-> under_attack,
      crashed |-> FALSE ]

\* the world a pass leaves, and the pass that runs next; an exception of a
\* pass ends the program
SetWorld(w, next) ==
    /\ global_units' = w.units
    /\ global_buildings' = w.buildings
    /\ projectiles' = w.projectiles
    /\ graveyard' = w.graveyard
    /\ fired' = w.fired
    /\ iron_fields' = w.fields
    /\ iron' = w.iron
    /\ under_attack' = w.under_attack
    /\ phase' = IF w.crashed THEN "crashed" ELSE next
(***************************************************************************)
(* The main loop: one action per pass, phase naming the pass to run next   *)
(***************************************************************************)
MaxGameTicks == 12
MaxOrders == 1

\* where the player clicks: an enemy infantry, open ground, the enemy
\* headquarters, an iron field, open ground east of that field
OrderPositions == { <<1150, 540>>, <<1000, 500>>, <<1340, 540>>, <<380, 340>>, <<470, 370>> }

\* MOUSEBUTTONDOWN, button 3, nothing pending: an order to the selected units
RightClickOrder ==
    /\ phase = "units"
    /\ orders < MaxOrders
    /\ pending_building = None
    /\ \E world_pos \in OrderPositions :
         \E w \in { right_click_order(World, world_pos) } : SetWorld(w, "units")
    /\ orders' = orders + 1
    /\ UNCHANGED <<hqTeam, production_queue, production_timer, pending_building,
                   pending_building_pos, power_output, power_usage, friendly_units,
                   hqHistory, uiVars, ai, enemy_units, decisions, fogVars, turn>>

\* "for unit in global_units: unit.update()", then iron_fields.update()
UpdateUnits ==
    /\ phase = "units"
    /\ ticks < MaxGameTicks
    /\ \E w \in { update_units(World, [ i \in DOMAIN global_units |-> global_units[i].id ]) } :
         \E v \in { [ w EXCEPT !.fields = iron_fields_update(@) ] } : SetWorld(v, "buildings")
    /\ UNCHANGED <<hqTeam, production_queue, production_timer, pending_building,
                   pending_building_pos, power_output, power_usage, friendly_units,
                   hqHistory, uiVars, ai, enemy_units, decisions, fogVars, orders, turn>>

\* "for building in global_buildings: building.update(...)"; the queue of the
\* headquarters is empty, and its update computes the power figures
UpdateBuildings ==
    /\ phase = "buildings"
    /\ production_queue = <<>>
    /\ \E w \in { update_buildings(World, global_buildings) } :
         SetWorld(w, "projectiles.update")
    /\ power_output' = IF HqAlive(global_buildings, hqTeam)
                       THEN Headquarters_power_output(TeamBuildings(global_buildings, hqTeam))
                       ELSE power_output
    /\ power_usage' = IF HqAlive(global_buildings, hqTeam)
                      THEN Headquarters_power_usage(HqId(hqTeam),
                                                    TeamUnits(global_units, hqTeam),
                                                    TeamBuildings(global_buildings, hqTeam))
                      ELSE power_usage
    /\ UNCHANGED <<hqTeam, production_queue, production_timer, pending_building,
                   pending_building_pos, friendly_units,
                   hqHistory, uiVars, ai, enemy_units, decisions, fogVars, orders, turn>>

\* a loop that resolves the collisions before it moves the projectiles
UpdateProjectiles_after_collisions ==
    /\ phase = "projectiles.update"
    /\ \E w \in { update_projectiles(
                     handle_collisions(World, [ i \in DOMAIN global_units |-> global_units[i].id ], 0),
                     projectiles) } : SetWorld(w, "attacks.player")
    /\ UNCHANGED <<hqTeam, production_queue, production_timer, pending_building,
                   pending_building_pos, power_output, power_usage, friendly_units,
                   hqHistory, uiVars, ai, enemy_units, decisions, fogVars, orders, turn>>

\* projectiles.update(particles)
UpdateProjectiles ==
    /\ phase = "projectiles.update"
    /\ \E w \in { update_projectiles(World, projectiles) } : SetWorld(w, "collisions")
    /\ UNCHANGED <<hqTeam, production_queue, production_timer, pending_building,
                   pending_building_pos, power_output, power_usage, friendly_units,
                   hqHistory, uiVars, ai, enemy_units, decisions, fogVars, orders, turn>>

\* handle_collisions(global_units)
HandleCollisions ==
    /\ phase = "collisions"
    /\ \E w \in { handle_collisions(World, [ i \in DOMAIN global_units |-> global_units[i].id ], 0) } :
         SetWorld(w, "attacks.player")
    /\ UNCHANGED <<hqTeam, production_queue, production_timer, pending_building,
                   pending_building_pos, power_output, power_usage, friendly_units,
                   hqHistory, uiVars, ai, enemy_units, decisions, fogVars, orders, turn>>

\* handle_attacks(team_units=player_units, ...), then the same for ai_units:
\* one step for every unit of team_units, in the order of the group (no unit
\* of the team leaves the group during its team's pass)
HandleAttacks ==
    /\ phase \in { "attacks.player", "attacks.ai" }
    /\ \E team_units \in { TeamUnits(global_units,
                                     IF phase = "attacks.player" THEN GDI ELSE NOD) } :
         /\ \E w \in { IF team_units = <<>> THEN World
                       ELSE attack(World, team_units[turn],
                                   closest_target(World, team_units[turn])) } :
              SetWorld(w, IF turn < Len(team_units) THEN phase
                          ELSE IF phase = "attacks.player" THEN "attacks.ai"
                          ELSE "projectiles")
         /\ turn' = IF turn < Len(team_units) THEN turn + 1 ELSE 1
    /\ UNCHANGED <<hqTeam, production_queue, production_timer, pending_building,
                   pending_building_pos, power_output, power_usage, friendly_units,
                   hqHistory, uiVars, ai, enemy_units, decisions, fogVars, orders>>

\* handle_projectiles(...)
HandleProjectiles ==
    /\ phase = "projectiles"
    /\ \E w \in { handle_projectiles(World, projectiles) } : SetWorld(w, "ai")
    /\ UNCHANGED <<hqTeam, production_queue, production_timer, pending_building,
                   pending_building_pos, power_output, power_usage, friendly_units,
                   hqHistory, uiVars, ai, enemy_units, decisions, fogVars, orders, turn>>

\* ai.update(...) as far as the units see it: a wave is sent when the AI's
\* timers and its dice say so
AIOrders ==
    /\ phase = "ai"
    /\ \/ /\ SetWorld(World, "fog")
          /\ UNCHANGED orders
       \/ /\ orders < MaxOrders
          /\ \E target_id \in { 0 } \cup { e.id : e \in { global_units[i] : i \in DOMAIN global_units }
                                                   \cup { global_buildings[i] : i \in DOMAIN global_buildings } },
                offset \in { <<0, 0>>, <<-20, 20>> } :
               /\ target_id # 0 => deref(World, target_id).team = GDI
               /\ \E w \in { coordinate_attack(World, target_id, offset) } : SetWorld(w, "fog")
          /\ orders' = orders + 1
    /\ UNCHANGED <<hqTeam, production_queue, production_timer, pending_building,
                   pending_building_pos, power_output, power_usage, friendly_units,
                   hqHistory, uiVars, ai, enemy_units, decisions, fogVars, turn>>

\* the centres of the player's units and buildings, which fog_of_war.update
\* is called with
PlayerCentres(objs) ==
    { position_of(objs[i]) : i \in { j \in DOMAIN objs : objs[j].team = GDI } }

\* fog_of_war.update(units=player_units, buildings=player_buildings)
RefreshFog ==
    /\ phase = "fog"
    /\ explored' = update_explored(explored, PlayerCentres(global_units),
                                   PlayerCentres(global_buildings))
    /\ visible' = update_visible(PlayerCentres(global_units), PlayerCentres(global_buildings))
    /\ phase' = "flags"
    /\ UNCHANGED <<hqVars, hqHistory, uiVars, ai, enemy_units, iron_fields, decisions,
                   fogUpdates, gameVars>>

\* "for unit in global_units: unit.under_attack = False" after draw, and the
\* end of the iteration; drawing alone reads the flag
ClearFlags ==
    /\ phase = "flags"
    /\ phase' = "units"
    /\ ticks' = ticks + 1
    /\ under_attack' = under_attack \ { global_units[i].id : i \in DOMAIN global_units }
    /\ UNCHANGED <<hqVars, headTicks, lastDone, uiVars, ai, enemy_units, iron_fields,
                   decisions, fogVars, global_units, projectiles, graveyard, fired,
                   orders, turn>>
\* a unit in the middle of a game: placed, hurt, selected or not
Placed(id, cls, team, pos, health, selected) ==
    [ GameObject(id, cls, team, pos, health) EXCEPT !.selected = selected ]

\* the Turret the AI has placed west of its headquarters
NodTurret == Building(3, "Turret", NOD, snap_to_grid(<<1200, 520>>))

\* the iron field beside the GDI headquarters
HomeField == IronField(360, 320, 5000)

\* The casts of the scenarios: a skirmish before the AI's base between the
\* player's infantry 101, tank 102 and harvester 103 and the AI's infantry
\* 201 and tank 202, fresh or worn down to their last points of health, with
\* the AI's infantry 204 come up against the player's tank, or with its
\* infantry 205 and 201 at the same distance on either side of infantry 101; and
\* the player's harvester 107 at the field beside its headquarters, at the end
\* of its harvest_time or on its way back with a full load
Cast(n, worn) ==
    LET h(cls, team, low) == IF worn THEN low ELSE Stats(cls, team).health
        i101 == Placed(101, "Infantry", GDI, <<1120, 540>>, h("Infantry", GDI, 15), TRUE)
        t102 == Placed(102, "Tank", GDI, <<1080, 540>>, h("Tank", GDI, 15), TRUE)
        h103 == Placed(103, "Harvester", GDI, <<1150, 580>>, h("Harvester", GDI, 15), TRUE)
        i104 == Placed(104, "Infantry", GDI, <<1126, 546>>, h("Infantry", GDI, 100), FALSE)
        i105 == Placed(105, "Infantry", GDI, <<1190, 540>>, h("Infantry", GDI, 100), FALSE)
        i201 == Placed(201, "Infantry", NOD, <<1150, 540>>, h("Infantry", NOD, 8), FALSE)
        t202 == Placed(202, "Tank", NOD, <<1190, 590>>, h("Tank", NOD, 20), FALSE)
        i203 == Placed(203, "Infantry", NOD, <<1160, 560>>, h("Infantry", NOD, 16), FALSE)
        i204 == Placed(204, "Infantry", NOD, <<1086, 544>>, h("Infantry", NOD, 60), FALSE)
        i205 == Placed(205, "Infantry", NOD, <<1090, 540>>, h("Infantry", NOD, 16), FALSE)
        h107 == [ Placed(107, "Harvester", GDI, IF worn THEN <<380, 340>> ELSE <<404, 340>>,
                         HarvesterStats.health, TRUE)
                  EXCEPT !.state = IF worn THEN "RETURNING_TO_HQ" ELSE "HARVESTING",
                         !.target_field = 1,
                         !.harvest_time = IF worn THEN 0 ELSE 1,
                         !.iron = IF worn THEN HarvesterStats.capacity ELSE 0,
                         !.target = IF worn THEN position(GdiHq) ELSE NoPos ]
    IN  CASE n = 1 -> <<i101, i201>>
          [] n = 2 -> <<i101, t102, i201>>
          [] n = 3 -> <<i101, i201, t202>>
          [] n = 4 -> <<t102, h103, i201, i203>>
          [] n = 5 -> <<i101, t102, i104, i201, t202>>
          [] n = 6 -> <<i101, i105, i201, t202>>
          [] n = 7 -> <<h107>>
          [] n = 8 -> <<t102, i101, i201, i204>>
          [] n = 9 -> <<i101, i205, i201>>

GameInit ==
    /\ hqTeam = GDI
    /\ iron = 1500
    /\ production_queue = <<>>
    /\ production_timer = 0
    /\ pending_building = None
    /\ pending_building_pos = NoPos
    /\ power_output = 0
    /\ power_usage = 0
    /\ friendly_units = <<>>
    /\ headTicks = <<0, 0>>
    /\ lastDone = NoItem
    /\ UiIdle
    /\ fogUpdates = 0
    /\ ai = [ timer |-> 0, wave_timer |-> 0, wave_number |-> 0, state |-> "BUILD_UP",
              surprise_attack_cooldown |-> 0 ]
    /\ enemy_units = <<>>
    /\ decisions = 0
    /\ ticks = 0
    /\ phase = "units"
    /\ orders = 0
    /\ turn = 1
    /\ projectiles = <<>>
    /\ graveyard = <<>>
    /\ fired = <<>>
    /\ under_attack = {}
    /\ \E n \in 1..9, worn \in BOOLEAN :
         /\ global_units = Cast(n, worn)
         /\ iron_fields = <<IF n = 7 /\ worn
                             THEN [ HomeField EXCEPT !.resources = @ - HarvesterStats.capacity ]
                             ELSE HomeField>>
         /\ global_buildings =
              <<GdiHq, NodHq>>
              \o (IF n \in { 3, 5, 6 }
                  THEN <<[ NodTurret EXCEPT !.health = IF worn THEN 8 ELSE @ ]>> ELSE <<>>)
    /\ visible = update_visible(PlayerCentres(global_units), PlayerCentres(global_buildings))
    /\ explored = visible

NextGame ==
    \/ RightClickOrder
    \/ UpdateUnits
    \/ UpdateBuildings
    \/ UpdateProjectiles
    \/ HandleCollisions
    \/ HandleAttacks
    \/ HandleProjectiles
    \/ AIOrders
    \/ RefreshFog
    \/ ClearFlags

SpecGame == GameInit /\ [][NextGame]_vars

(***************************************************************************)
(* Claims about combat                                                     *)
(***************************************************************************)
\* the members of the active rosters: global_units (player_units and
\* ai_units are its two teams) and global_buildings
Roster == global_units \o global_buildings

\* C1: at every boundary between two passes of the main loop, and so at the
\* end of every tick, no unit or building with health <= 0 is a member of a
\* roster, and nothing is at once in a roster and removed: a damage that
\* brings health to <= 0 removes the entity in the same step.
C1_NoDeadInRoster ==
    /\ \A i \in DOMAIN Roster : Roster[i].health > 0
    /\ \A i \in DOMAIN Roster, j \in DOMAIN graveyard : Roster[i].id # graveyard[j].id

\* a unit and a building have been brought to health <= 0 and removed
C1_Witness ==
    /\ \E j \in DOMAIN graveyard :
         graveyard[j].cls \in UnitClasses /\ graveyard[j].health <= 0
    /\ \E j \in DOMAIN graveyard :
         graveyard[j].cls \in BuildingClasses /\ graveyard[j].health <= 0

\* C3: a projectile reduces health at most once in its life; the step of
\* handle_projectiles in which it does so removes it from the projectiles
\* group, and a projectile that is out of the group never does so again.
C3_ProjectileHitsOnce ==
    [][\A i \in DOMAIN fired :
         LET flying == \E k \in DOMAIN projectiles : projectiles[k].id = fired[i].id
             lands == \E k \in DOMAIN projectiles' : projectiles'[k].id = fired[i].id
         IN  /\ fired'[i].id = fired[i].id
             /\ fired'[i].hits # fired[i].hits =>
                  /\ fired[i].hits = 0 /\ fired'[i].hits = 1
                  /\ phase = "projectiles"
                  /\ flying /\ ~ lands
             /\ ~ flying => ~ lands]_vars

\* a projectile has hit and is out of the group, another is still under way
C3_Witness ==
    /\ \E i \in DOMAIN fired :
         /\ fired[i].hits = 1
         /\ \A k \in DOMAIN projectiles : projectiles[k].id # fired[i].id
    /\ \E i \in DOMAIN fired :
         /\ fired[i].hits = 0
         /\ \E k \in DOMAIN projectiles : projectiles[k].id = fired[i].id

\* the unit the loop of handle_attacks has come to
C7_Unit ==
    TeamUnits(global_units, IF phase = "attacks.player" THEN GDI ELSE NOD)[turn]

\* the ids of the living enemies of tank within its ATTACK_RANGE
C7_InRange(tank) ==
    { Roster[i].id : i \in { k \in DOMAIN Roster :
          /\ Roster[k].team # tank.team
          /\ Roster[k].health > 0
          /\ Dist2(<<tank.x, tank.y>>, position_of(Roster[k]))
               <= Sq(TankStats(tank.team).ATTACK_RANGE) } }

\* the projectiles the step adds
C7_Shells == { k \in DOMAIN projectiles' : k > Len(projectiles) }

\* tank after the step
C7_After(tank) ==
    global_units'[CHOOSE i \in DOMAIN global_units' : global_units'[i].id = tank.id]

\* the projectile k is aimed at a living enemy in range, the tank's own
\* target_unit when that is one and else a nearest one, which becomes its
\* target_unit, and carries the tank's attack_damage
C7_Aimed(tank, k) ==
    LET e == projectiles'[k].target_unit
        d(id) == Dist2(<<tank.x, tank.y>>, position_of(deref(World, id)))
    IN  /\ e \in C7_InRange(tank)
        /\ tank.target_unit \in C7_InRange(tank) => e = tank.target_unit
        /\ tank.target_unit \notin C7_InRange(tank) => \A o \in C7_InRange(tank) : d(e) <= d(o)
        /\ projectiles'[k].damage = TankStats(tank.team).attack_damage
        /\ projectiles'[k].team = tank.team
        /\ C7_After(tank).target_unit = e

C10_Stale ==
    { i \in DOMAIN global_units :
        /\ global_units[i].target_unit # 0
        /\ deref(World, global_units[i].target_unit).health <= 0 }

C6_After(h) ==
    global_units'[CHOOSE i \in DOMAIN global_units' : global_units'[i].id = h.id]

\* what C6 says of the update of the player's harvester h
C6_Update(h) ==
    LET a == C6_After(h)
        here == <<a.x, a.y>>
        at_field == /\ a.target_field # 0
                    /\ Dist2(here, field_position(iron_fields[a.target_field]))
                         < Sq(IRON_TRANSFER_RANGE)
        at_hq == Dist2(here, position(GdiHq)) < Sq(IRON_TRANSFER_RANGE)
    IN  CASE h.state = "MOVING_TO_FIELD" /\ h.iron = 0 ->
               /\ a.state = IF at_field THEN "HARVESTING" ELSE "MOVING_TO_FIELD"
               /\ a.iron = 0
               /\ iron' = iron
          [] h.state = "HARVESTING" /\ h.harvest_time > 0 ->
               /\ a.state = "HARVESTING"
               /\ a.iron = h.iron
               /\ iron' = iron
          [] h.state = "HARVESTING" /\ h.harvest_time = 0 ->
               LET harvested == Min(HarvesterStats.capacity,
                                    iron_fields[h.target_field].resources)
               IN  /\ a.state = "RETURNING_TO_HQ"
                   /\ a.iron = harvested
                   /\ iron_fields'[h.target_field].resources
                        = iron_fields[h.target_field].resources - harvested
                   /\ iron' = iron
          [] h.state = "RETURNING_TO_HQ" ->
               IF at_hq
               THEN /\ a.state = "MOVING_TO_FIELD"
                    /\ a.iron = 0
                    /\ iron' = iron + h.iron
               ELSE /\ a.state = "RETURNING_TO_HQ"
                    /\ a.iron = h.iron
                    /\ iron' = iron
          [] OTHER -> FALSE

\* a step of the game as C6 describes it: an update of the units follows the
\* cycle and ends in no exception, any other step leaves state, cargo and
\* the iron of the headquarters alone
C6_Step ==
    \A i \in DOMAIN global_units :
      (/\ global_units[i].cls = "Harvester"
       /\ global_units[i].team = GDI
       /\ \E k \in DOMAIN global_units' : global_units'[k].id = global_units[i].id) =>
        IF phase = "units" /\ phase' # "units"
        THEN phase' = "buildings" /\ C6_Update(global_units[i])
        ELSE /\ C6_After(global_units[i]).state = global_units[i].state
             /\ C6_After(global_units[i]).iron = global_units[i].iron
             /\ iron' = iron

\* C6: the cycle of a harvester.  An update turns MOVING_TO_FIELD with cargo 0
\* into HARVESTING exactly when the harvester is within IRON_TRANSFER_RANGE of
\* its target field; HARVESTING into RETURNING_TO_HQ exactly when harvest_time
\* has run out, with cargo min(capacity, field resources) taken from the
\* field; RETURNING_TO_HQ into MOVING_TO_FIELD exactly when the harvester is
\* within IRON_TRANSFER_RANGE of the headquarters, and then the headquarters'
\* iron grows by the cargo and the cargo is 0; no update ends in an exception,
\* and no other step changes state, cargo or the headquarters' iron.
C6_HarvesterCycle == [][C6_Step]_vars

\* the steps of a game in which no order has been given follow the cycle
C6_CycleWithoutOrders == [][orders' = 0 => C6_Step]_vars

\* ---------------------------------------------------------------------
\* Claims about the production interface
\* ---------------------------------------------------------------------

\* the living building the faction needs before cls may be queued
C13_Requirement(cls) ==
    IF cls = "Infantry" THEN "Barracks"
    ELSE IF cls \in { "Tank", "Harvester" } THEN "WarFactory" ELSE None

\* C13: a click on the buy button of a Tank or a Harvester is accepted only
\* when the player's faction has a living WarFactory, and one on the button of
\* Infantry only when it has a living Barracks.
C13_BuyNeedsSupport ==
    [][(commands' = commands + 1 /\ lastCommand'.kind = "buy"
          /\ lastCommand'.accepted /\ C13_Requirement(lastCommand'.cls) # None)
        => LivingOf(TeamBuildings(global_buildings, hqTeam),
                    C13_Requirement(lastCommand'.cls)) # <<>>]_vars

\* the selected building stands in the roster, alive and the player's own
C20_OwnSelected ==
    \E i \in DOMAIN global_buildings :
       /\ global_buildings[i].id = selected_building.id
       /\ global_buildings[i].team = hqTeam
       /\ global_buildings[i].health > 0

\* C20: a click on the sell button while a living building of the player is
\* selected adds half the cost of the building to the iron and takes the
\* building out of the roster in the same step.
C20_SellRefundsHalf ==
    [][(commands' = commands + 1 /\ lastCommand'.kind = "sell" /\ C20_OwnSelected) =>
         /\ iron' = iron + COST[selected_building.cls] \div 2
         /\ global_buildings' = RemoveId(global_buildings, selected_building.id)]_vars

\* ---------------------------------------------------------------------
\* Claims about the AI's production
\* ---------------------------------------------------------------------

\* C12: the production queue of a headquarters never holds more than
\* MAX_PRODUCTION_QUEUE_LENGTH items, whatever the player's clicks and the AI's
\* production decisions add to it.
C12_QueueBounded == Len(production_queue) <= MAX_PRODUCTION_QUEUE_LENGTH

\* what produce_objs counts when ai.update is called
C18_Current == current_units(HQState, friendly_units, TeamBuildings(global_buildings, NOD))

\* a Barracks and a WarFactory are built or queued, the power output is under
\* the power usage, fewer PowerPlants stand than are desired and the iron
\* pays for one
C18_PowerConstrained ==
    /\ C18_Current.barracks > 0
    /\ C18_Current.war_factory > 0
    /\ power_output < power_usage
    /\ C18_Current.power_plant < desired_units(C18_Current).power_plant
    /\ iron >= COST["PowerPlant"]

C19_EnemyHarvesters ==
    enemy_unit_counts(enemy_units, TeamBuildings(global_buildings, GDI)).harvester

\* none of the four rules at the head of produce_objs fires
C19_NoPriority ==
    priority(HQState, C18_Current, C19_EnemyHarvesters, income_below_50(friendly_units)) = None

\* the candidates produce_objs lists for the state st, under the names its
\* branches are written with
C19_Eligible(st) ==
    production_options(IF st \in { "BUILD_UP", "AGGRESSIVE" } THEN "Build Up"
                       ELSE IF st \in { "ATTACKED", "THREATENED" } THEN "Attacked"
                       ELSE None,
                       HQState, C18_Current, C19_EnemyHarvesters)

\* C19: a production decision in which no priority rule fires and a candidate
\* is eligible for the state (AGGRESSIVE, BUILD_UP, THREATENED or ATTACKED)
\* adds exactly one item to the queue, one of the eligible candidates, and
\* takes its cost from the iron; no decision adds more than one item.
C19_OneEligibleItem ==
    [][decisions' = decisions + 1 =>
         /\ Len(production_queue') <= Len(production_queue) + 1
         /\ (C19_NoPriority /\ C19_Eligible(ai'.state) # {}) =>
               \E c \in C19_Eligible(ai'.state) :
                  /\ production_queue' = Append(production_queue, c)
                  /\ iron' = iron - COST[c]]_vars

\* ---------------------------------------------------------------------
\* Claims about the state of the AI
\* ---------------------------------------------------------------------

\* the conditions of the chain, on the values ai.update is called with
C17_Broke ==
    \/ iron < 300
    \/ SumIron(friendly_units) * 60 < 50 * 40 * Max(1, CountCls(friendly_units, "Harvester"))

C17_Attacked == AiHq(global_buildings, NOD).health * 10 < BuildingHealth["Headquarters"] * 6

C17_Threatened ==
    \E i \in DOMAIN enemy_units :
       Dist2(<<enemy_units[i].x, enemy_units[i].y>>, position(NodHq)) < Sq(THREAT_RANGE)

C17_Aggressive ==
    \/ ai.wave_number >= 2
    \/ Len(enemy_units) + Len(TeamBuildings(global_buildings, GDI)) > 8

\* C17: every ai.update sets the state from the current values alone: BROKE
\* iff iron < 300 or the income rate < 50; else ATTACKED iff the health of the
\* headquarters is under 60% (the defensive cooldown is never started); else
\* THREATENED iff an enemy unit is within THREAT_RANGE of the headquarters;
\* else AGGRESSIVE iff wave_number >= 2 or the player has more than 8 units
\* and buildings; else BUILD_UP.
C17_StateFromChain ==
    [][phase = "ai" =>
         /\ ai'.state = "BROKE" <=> C17_Broke
         /\ ai'.state = "ATTACKED" <=> ~ C17_Broke /\ C17_Attacked
         /\ ai'.state = "THREATENED" <=> ~ C17_Broke /\ ~ C17_Attacked /\ C17_Threatened
         /\ ai'.state = "AGGRESSIVE" <=>
               ~ C17_Broke /\ ~ C17_Attacked /\ ~ C17_Threatened /\ C17_Aggressive
         /\ ai'.state = "BUILD_UP" <=>
               ~ C17_Broke /\ ~ C17_Attacked /\ ~ C17_Threatened /\ ~ C17_Aggressive]_vars

\* an update has found the headquarters both damaged and within reach of an
\* enemy, and has set ATTACKED
C17_Witness ==
    /\ phase = "buildings" /\ ticks >= 1
    /\ ai.state = "ATTACKED"
    /\ C17_Threatened

\* ---------------------------------------------------------------------
\* Claims about the order of the passes of a tick
\* ---------------------------------------------------------------------

\* the passes of the main loop in the order of its statements
C14_Passes ==
    <<"units", "buildings", "projectiles.update", "collisions", "attacks.player",
      "attacks.ai", "projectiles", "ai", "fog", "flags">>

C14_Place(p) == CHOOSE i \in DOMAIN C14_Passes : C14_Passes[i] = p

\* the stage a pass belongs to: 1 movement and collision resolution, 2 the
\* per-entity update (combat targeting, economy and production), 3 projectile
\* resolution, 4 the AI, 5 the fog of war, 6 the transient flags
C14_Stage(p) ==
    CASE p \in { "units", "collisions" } -> 1
      [] p \in { "buildings", "attacks.player", "attacks.ai" } -> 2
      [] p \in { "projectiles.update", "projectiles" } -> 3
      [] p = "ai" -> 4
      [] p = "fog" -> 5
      [] p = "flags" -> 6

\* a step that ends one pass and leaves another to run in the same tick
C14_NextPass == phase' # phase /\ phase' \notin { "units", "crashed" }

C15_Orphans == { k \in DOMAIN projectiles : ~ alive(World, projectiles[k].target_unit) }

\* the number of hits counted for the projectile id in the sequence f
C15_Hits(f, id) == f[CHOOSE i \in DOMAIN f : f[i].id = id].hits

\* C15: a projectile whose target is no longer alive deals no damage: no pass
\* of the main loop counts a hit for it, whether the target died in an
\* earlier tick or earlier in the same tick.
C15_OrphanDealsNoDamage ==
    [][\A k \in C15_Orphans :
         C15_Hits(fired', projectiles[k].id) = C15_Hits(fired, projectiles[k].id)]_vars

\* ---------------------------------------------------------------------
\* Claims about the discs of the fog of war
\* ---------------------------------------------------------------------

\* the tiles of the grid whose centre lies within radius of the point c
C16_Within(c, radius) ==
    { t \in (0..(GridW - 1)) \X (0..(GridH - 1)) :
        Sq(c[1] - (t[1] * TILE_SIZE + TILE_SIZE \div 2))
          + Sq(c[2] - (t[2] * TILE_SIZE + TILE_SIZE \div 2)) <= Sq(radius) }

\* the tiles within the unit radius of a unit or the building radius of a
\* building
C16_Disc(units, buildings) ==
    UNION ({ C16_Within(u, UNIT_EXPLORATION_RADIUS) : u \in units }
           \cup { C16_Within(b, BUILDING_EXPLORATION_RADIUS) : b \in buildings })

\* C16: after FogOfWar.update the visible tiles are those whose centre lies
\* within the unit radius of a friendly unit or the building radius of a
\* friendly building, by Euclidean distance, and all of them are explored.
C16_VisibleIsDisc ==
    [][fogUpdates' = fogUpdates + 1 =>
         \E units \in SUBSET FogUnitCentres, buildings \in SUBSET FogBuildingCentres :
            /\ visible' = C16_Disc(units, buildings)
            /\ visible' \subseteq explored']_vars

\* ---------------------------------------------------------------------
\* Claims about movement
\* ---------------------------------------------------------------------

\* the unit of the group after the pass that has the id of u, or u itself
\* when the pass has removed it
C21_After(u) ==
    LET left == SelectSeq(global_units', LAMBDA v : v.id = u.id)
    IN  IF left = <<>> THEN u ELSE left[1]

\* the effective target of u: the position of its living target_unit while
\* that is outside its attack range, else its formation target, else its
\* plain target, else none
C21_Effective(u) ==
    IF /\ alive(World, u.target_unit)
       /\ Dist2(<<u.x, u.y>>, position_of(deref(World, u.target_unit)))
             > Sq(Stats(u.cls, u.team).ATTACK_RANGE)
    THEN position_of(deref(World, u.target_unit))
    ELSE IF is_set(u.formation_target) THEN u.formation_target
    ELSE u.target

\* one step of u towards its effective target
C21_Step(u) == IF is_set(C21_Effective(u)) THEN advance(u, C21_Effective(u)) ELSE u

\* the pass of the unit updates, in which no unit is removed
C21_UnitPass == phase = "units" /\ phase' = "buildings" /\ graveyard' = graveyard

\* C21 as stated: in the pass of the unit updates every unit takes one step towards its
\* effective target (the position of its living target_unit outside attack
\* range, else its formation target, else its plain target), and none when
\* that is within the arrival radius.
C21_MovesToEffectiveTarget ==
    [][C21_UnitPass =>
         \A i \in DOMAIN global_units :
            /\ C21_After(global_units[i]).x = C21_Step(global_units[i]).x
            /\ C21_After(global_units[i]).y = C21_Step(global_units[i]).y]_vars

\* u has a move target and a living target_unit
C21_Engaged(u) == is_set(u.target) /\ alive(World, u.target_unit)

\* where u heads in the pass: with a living target_unit, its move target
\* while that is farther than its attack range and nowhere once it is not;
\* else its formation target; else its plain target
C21_Goal(u) ==
    IF C21_Engaged(u)
    THEN IF Dist2(<<u.x, u.y>>, u.target) > Sq(Stats(u.cls, u.team).ATTACK_RANGE)
         THEN u.target ELSE NoPos
    ELSE IF is_set(u.formation_target) THEN u.formation_target
    ELSE u.target

C21_GoalStep(u) == IF is_set(C21_Goal(u)) THEN advance(u, C21_Goal(u)) ELSE u

\* C21 as the code has it: in the pass of the unit updates a unit with a move
\* target and a living target_unit steps towards the move target while that
\* is farther than its attack range and stands still once it is not; any
\* other unit steps towards its formation target if set, else its plain
\* target; no step is taken within the arrival radius.
C21_MovesToGoal ==
    [][C21_UnitPass =>
         \A i \in DOMAIN global_units :
            /\ C21_After(global_units[i]).x = C21_GoalStep(global_units[i]).x
            /\ C21_After(global_units[i]).y = C21_GoalStep(global_units[i]).y]_vars

\* after a pass of the unit updates a unit with a formation target stands
\* away from it, its living target_unit within attack range
C21_Witness ==
    /\ phase = "buildings"
    /\ \E i \in DOMAIN global_units :
          LET u == global_units[i]
          IN  /\ C21_Engaged(u)
              /\ is_set(u.formation_target)
              /\ Dist2(<<u.x, u.y>>, u.formation_target) > Sq(ARRIVAL_RADIUS)
              /\ Dist2(<<u.x, u.y>>, u.target) <= Sq(Stats(u.cls, u.team).ATTACK_RANGE)

\* ---------------------------------------------------------------------
\* Claims about the selection of targets
\* ---------------------------------------------------------------------

\* the loop of handle_attacks has come to a Tank or an Infantry with
\* cooldown_timer 0
C22_Turn ==
    /\ phase \in { "attacks.player", "attacks.ai" }
    /\ turn <= Len(TeamUnits(global_units, IF phase = "attacks.player" THEN GDI ELSE NOD))
    /\ C7_Unit.cls \in { "Tank", "Infantry" }
    /\ C7_Unit.cooldown_timer = 0

\* the places in the scan (units, then buildings) of the living enemies of
\* unit within its ATTACK_RANGE
C22_Candidates(unit) ==
    { k \in DOMAIN Roster :
        /\ Roster[k].team # unit.team
        /\ Roster[k].health > 0
        /\ Dist2(<<unit.x, unit.y>>, position_of(Roster[k]))
             <= Sq(Stats(unit.cls, unit.team).ATTACK_RANGE) }

\* the id the claim has unit select, 0 for none
C22_Expected(unit) ==
    LET d(k) == Dist2(<<unit.x, unit.y>>, position_of(Roster[k]))
        near == C22_Candidates(unit)
    IN  IF \E k \in near : Roster[k].id = unit.target_unit THEN unit.target_unit
        ELSE IF near = {} THEN 0
        ELSE Roster[CHOOSE k \in near :
                      \A j \in near : d(k) < d(j) \/ (d(k) = d(j) /\ k <= j)].id

\* the id the unit has struck or fired at in the step, 0 for none: the
\* entity the step has removed, else the target_unit the unit is left with
\* when its cooldown has started
C22_Selected ==
    IF Len(graveyard') > Len(graveyard) THEN graveyard'[Len(graveyard')].id
    ELSE IF C7_After(C7_Unit).cooldown_timer # 0 THEN C7_After(C7_Unit).target_unit
    ELSE 0

\* C22: a Tank or an Infantry with cooldown 0 keeps its target_unit when that
\* is alive and within its attack range; otherwise it selects the nearest
\* living enemy unit or building within range, the first in scan order among
\* equally near ones; it selects nothing when there is none.
C22_SelectsNearestOrKeeps ==
    [][C22_Turn => C22_Selected = C22_Expected(C7_Unit)]_vars

\* a unit has just attacked the first of two living enemies that stand at
\* the same distance from it, within its range
C22_Witness ==
    \E i \in DOMAIN global_units :
       LET u == global_units[i]
           d(k) == Dist2(<<u.x, u.y>>, position_of(Roster[k]))
       IN  /\ u.cls \in { "Tank", "Infantry" }
           /\ u.cooldown_timer = Stats(u.cls, u.team).ATTACK_COOLDOWN_PERIOD
           /\ \E j, k \in C22_Candidates(u) :
                 /\ j < k /\ d(j) = d(k)
                 /\ Roster[j].id = u.target_unit

\* ---------------------------------------------------------------------
\* Claims about collisions and the map
\* ---------------------------------------------------------------------

\* the pairs of places of distinct units whose rects overlap and whose
\* centres differ
C23_Overlapping ==
    { p \in (DOMAIN global_units) \X (DOMAIN global_units) :
        /\ p[1] < p[2]
        /\ colliderect(rect_of(global_units[p[1]]), rect_of(global_units[p[2]]))
        /\ <<global_units[p[1]].x, global_units[p[1]].y>>
             # <<global_units[p[2]].x, global_units[p[2]].y>> }

\* v is u at another place
C23_OnlyMoved(u, v) == v = [ u EXCEPT !.x = v.x, !.y = v.y ]

\* C23: handle_collisions moves two overlapping units away from each other,
\* so that the distance between their centres does not decrease; it moves no
\* building and changes nothing of a unit but its place.
C23_PushedApart ==
    [][phase = "collisions" =>
         /\ \A p \in C23_Overlapping :
              Dist2(<<global_units'[p[1]].x, global_units'[p[1]].y>>,
                    <<global_units'[p[2]].x, global_units'[p[2]].y>>)
                >= Dist2(<<global_units[p[1]].x, global_units[p[1]].y>>,
                         <<global_units[p[2]].x, global_units[p[2]].y>>)
         /\ global_buildings' = global_buildings
         /\ \A i \in DOMAIN global_units : C23_OnlyMoved(global_units[i], global_units'[i])]_vars

(***************************************************************************)
(* Claims about the bounds of the map                                      *)
(***************************************************************************)
C24_Inside(u) == rect_is_within_map(rect_of(u))

\* the positions EdgeLayout gives its buildings are positions that
\* Headquarters.place_building accepts, placed in the order of the roster
C24_EdgeLayoutPlaceable ==
    \A i \in 3..Len(EdgeLayout) :
        LET b == EdgeLayout[i]
        IN  /\ snap_to_grid(<<b.x, b.y>>) = <<b.x, b.y>>
            /\ is_valid_building_position(<<b.x, b.y>>, b.cls, b.team,
                                          SubSeq(EdgeLayout, 1, i - 1))

\* C24: when a tick has ended, the bounding box of every unit, those the
\* headquarters has spawned included, lies within the rectangle
\* (0, 0, MAP_WIDTH, MAP_HEIGHT).
C24_UnitsInsideMap ==
    /\ \A i \in DOMAIN friendly_units : C24_Inside(friendly_units[i])
    /\ phase = "units" =>
           \A i \in DOMAIN global_units : C24_Inside(global_units[i])

(***************************************************************************)
(* Claims about the under_attack flag                                      *)
(***************************************************************************)
C25_Entities ==
    { global_units[i] : i \in DOMAIN global_units }
    \cup { global_buildings[i] : i \in DOMAIN global_buildings }

\* every entity of the groups whose health a step has reduced is flagged
\* after the step
C25_DamageFlags ==
    \A e \in C25_Entities :
        deref(World, e.id)'.health < e.health => e.id \in under_attack'

\* no entity of the groups is flagged when an iteration of the loop has ended
C25_ClearedAtEnd ==
    (phase = "flags" /\ phase' = "units") =>
        \A e \in C25_Entities' : e.id \notin under_attack'

\* C25: every application of damage (a strike of handle_attacks, the defence
\* of a Harvester, the impact of a projectile) sets under_attack on the
\* damaged entity, and at the end of every tick under_attack is false for
\* every unit and every building.
C25_FlagTransient == [][C25_DamageFlags /\ C25_ClearedAtEnd]_vars

\* the two halves of the property, each on its own
C25_EveryDamageFlags == [][C25_DamageFlags]_vars

C25_AllClearedAtEnd == [][C25_ClearedAtEnd]_vars

(***************************************************************************)
(* Claims about health                                                     *)
(***************************************************************************)
\* C26: the health of every entity, those that kill() has removed and that
\* are still referred to as target_unit included, is at least 0 in every
\* reachable state.
C26_HealthNotNegative ==
    /\ \A e \in C25_Entities : e.health >= 0
    /\ \A i \in DOMAIN graveyard : graveyard[i].health >= 0

(***************************************************************************)
(* Claims about iron                                                       *)
(***************************************************************************)
C27_Harvesters ==
    { u \in { global_units[i] : i \in DOMAIN global_units }
             \cup { friendly_units[i] : i \in DOMAIN friendly_units }
             \cup { enemy_units[i] : i \in DOMAIN enemy_units }
             \cup { graveyard[i] : i \in DOMAIN graveyard } : u.cls = "Harvester" }

C28_TailInHeadOut ==
    \/ production_queue' = production_queue
    \/ \E c \in Classes : production_queue' = Append(production_queue, c)
    \/ production_queue # <<>> /\ production_queue' = Tail(production_queue)

\* the step completes an item of class c: a building awaits placement, a
\* unit joins the units of the headquarters
C28_Completes(c) ==
    IF issubclass_Building(c) THEN pending_building' = c
    ELSE /\ Len(friendly_units') = Len(friendly_units) + 1
         /\ friendly_units'[Len(friendly_units')].cls = c

\* C28: the production queue changes only by an append at its tail and by
\* the removal of its head, and the head is removed only by the completion
\* of that item, so that the items complete in the order of their enqueuing
\* and none is skipped.
C28_QueueIsFifo ==
    [][/\ C28_TailInHeadOut
       /\ Len(production_queue') < Len(production_queue)
             => C28_Completes(Head(production_queue))]_vars

\* the order alone: appends at the tail, removals at the head
C28_OrderKept == [][C28_TailInHeadOut]_vars

(***************************************************************************)
(* Claims about the Turret                                                 *)
(***************************************************************************)
C29_Turrets == { b \in { global_buildings[i] : i \in DOMAIN global_buildings } : b.cls = "Turret" }

\* the shots of one Turret, by the tick each was fired in
C29_ShotTicks(id) == { fired[k].id[2] : k \in { j \in DOMAIN fired : fired[j].id[1] = id } }

\* across the pass of the buildings a Turret that is cooling down and stays
\* in the roster loses one tick of its cooldown
C29_CoolsByOne ==
    phase = "buildings" =>
        \A b \in C29_Turrets :
            (b.cooldown_timer > 0 /\ alive(World, b.id)')
                => deref(World, b.id)'.cooldown_timer = b.cooldown_timer - 1

\* two shots of one Turret are at least attack_cooldown ticks apart
C29_ShotsApart ==
    \A b \in C29_Turrets :
        \A s, t \in C29_ShotTicks(b.id) :
            s < t => t - s >= TurretStats.attack_cooldown

C30_NoMissingData ==
    /\ phase # "crashed"
    /\ \A i \in DOMAIN global_units :
          LET g == global_units[i]
          IN  g.cls = "Harvester" =>
                /\ g.state = "RETURNING_TO_HQ" => is_set(g.target)
                /\ g.state = "HARVESTING" => g.target_field # 0

(***************************************************************************)
(* Claims about the delivery of iron                                       *)
(***************************************************************************)
\* the player's Harvesters whose cargo the step has emptied
C31_Delivered ==
    { g \in { global_units[i] : i \in DOMAIN global_units } :
        /\ g.cls = "Harvester" /\ g.team = GDI /\ g.iron > 0
        /\ \E k \in DOMAIN global_units' :
              global_units'[k].id = g.id /\ global_units'[k].iron = 0 }

\* C31: the iron of the headquarters grows by the cargo of a Harvester only
\* in a tick in which that Harvester is in RETURNING_TO_HQ and, after its
\* move, within IRON_TRANSFER_RANGE of the position of the headquarters,
\* also when the player has redirected it in the meantime.
C31_DeliveredAtHeadquarters ==
    [][iron' > iron =>
         /\ C31_Delivered # {}
         /\ \A g \in C31_Delivered :
               /\ g.state = "RETURNING_TO_HQ"
               /\ Dist2(<<C6_After(g).x, C6_After(g).y>>, position(GdiHq))
                    < Sq(IRON_TRANSFER_RANGE)]_vars

(***************************************************************************)
(* The harvest: whole iterations of the main loop for a player who gives   *)
(* no orders and has a single Harvester on the map                         *)
(***************************************************************************)
MaxHarvestTicks == 3

\* an iron field away from the headquarters
FarField == IronField(600, 500, 5000)

\* the Harvester the main program creates, at the headquarters' position
\* plus (100, 100)
StartingHarvester == GameObject(107, "Harvester", GDI, <<400, 400>>, HarvesterStats.health)

\* the WarFactory of the player, beside the headquarters
HarvestFactory == Support(GDI, 2)

\* a Harvester as Headquarters.update has spawned it beside the WarFactory:
\* at its formation position, which is also its formation_target
SpawnedHarvester ==
    LET new == NewUnit("Harvester", GDI, HarvestFactory)
    IN  [ GameObject(108, "Harvester", GDI, <<new.x, new.y>>, HarvesterStats.health)
          EXCEPT !.formation_target = new.formation_target ]

HarvestInit ==
    /\ hqTeam = GDI
    /\ iron = 1500
    /\ production_queue = <<>>
    /\ production_timer = 0
    /\ pending_building = None
    /\ pending_building_pos = NoPos
    /\ power_output = 0
    /\ power_usage = 0
    /\ friendly_units = <<>>
    /\ headTicks = <<0, 0>>
    /\ lastDone = NoItem
    /\ UiIdle
    /\ fogUpdates = 0
    /\ ai = [ timer |-> 0, wave_timer |-> 0, wave_number |-> 0, state |-> "BUILD_UP",
              surprise_attack_cooldown |-> 0 ]
    /\ enemy_units = <<>>
    /\ decisions = 0
    /\ ticks = 0
    /\ phase = "units"
    /\ orders = 0
    /\ turn = 1
    /\ projectiles = <<>>
    /\ graveyard = <<>>
    /\ fired = <<>>
    /\ under_attack = {}
    /\ \/ /\ global_units = <<StartingHarvester>>
          /\ global_buildings = <<GdiHq, NodHq>>
       \/ /\ global_units = <<SpawnedHarvester>>
          /\ global_buildings = <<GdiHq, NodHq, HarvestFactory>>
    /\ iron_fields \in { <<HomeField>>, <<FarField>>, <<HomeField, FarField>> }
    /\ visible = update_visible(PlayerCentres(global_units), PlayerCentres(global_buildings))
    /\ explored = visible

\* one iteration of the main loop, until the first delivery: the updates of
\* the units, the fields and the buildings, the collisions, the fog and the
\* clearing of the flags; with a Harvester as the only unit there is no
\* attack and no projectile
HarvestTick ==
    /\ phase = "units"
    /\ iron < 1500 + HarvesterStats.capacity
    /\ \E w \in { update_units(World, [ i \in DOMAIN global_units |-> global_units[i].id ]) } :
         \E v \in { update_buildings([ w EXCEPT !.fields = iron_fields_update(@) ],
                                      w.buildings) } :
           \E c \in { handle_collisions(v, [ i \in DOMAIN v.units |-> v.units[i].id ], 0) } :
             /\ SetWorld([ c EXCEPT !.under_attack =
                             @ \ { c.units[i].id : i \in DOMAIN c.units } ], "units")
             /\ explored' = update_explored(explored, PlayerCentres(c.units),
                                            PlayerCentres(c.buildings))
             /\ visible' = update_visible(PlayerCentres(c.units), PlayerCentres(c.buildings))
    /\ power_output' = Headquarters_power_output(TeamBuildings(global_buildings, hqTeam))
    /\ power_usage' = Headquarters_power_usage(HqId(hqTeam), TeamUnits(global_units, hqTeam),
                                                TeamBuildings(global_buildings, hqTeam))
    /\ ticks' = (ticks + 1) % (MaxHarvestTicks + 1)
    /\ UNCHANGED <<hqTeam, production_queue, production_timer, pending_building,
                   pending_building_pos, friendly_units, headTicks, lastDone, uiVars,
                   ai, enemy_units, decisions, fogUpdates, orders, turn>>

NextHarvest == HarvestTick

\* the frame of the main loop: while the loop runs, clock.tick(60) ends one
\* iteration and the next one begins.  ticks counts the frames modulo
\* MaxHarvestTicks + 1, so every HarvestTick is a Frame step that changes the
\* state, and, HarvestTick being the only action, every Frame step of a
\* behaviour is a HarvestTick
Frame ==
    /\ phase = "units"
    /\ iron < 1500 + HarvesterStats.capacity
    /\ ticks' = (ticks + 1) % (MaxHarvestTicks + 1)

\* the main loop keeps running: weak fairness of its frames
SpecHarvest == HarvestInit /\ [][NextHarvest]_vars /\ WF_ticks(Frame)

(***************************************************************************)
(* Claims about the progress of the harvest                                *)
(***************************************************************************)
C32_Harvesting ==
    \E i \in DOMAIN global_units :
        /\ global_units[i].cls = "Harvester"
        /\ global_units[i].state = "HARVESTING"
        /\ Dist2(<<global_units[i].x, global_units[i].y>>,
                 field_position(iron_fields[global_units[i].target_field]))
              < Sq(IRON_TRANSFER_RANGE)

C32_Delivered == iron > 1500

\* C32: a Harvester that is not destroyed and gets no orders, whether the
\* main program created it or the headquarters produced it, eventually
\* harvests at an iron field and later delivers its cargo to the headquarters.
C32_HarvestMakesProgress == <>(C32_Harvesting /\ <>C32_Delivered)

(***************************************************************************)
(* The march: whole iterations of the main loop for one combat unit of     *)
(* each side at its headquarters, and the orders the two sides give them   *)
(***************************************************************************)
\* the first Infantry main creates for each side, the player's selected, or
\* a Tank in its place
Marcher(id, cls, team) ==
    Placed(id, cls, team, <<HqPos(team)[1] + 50, HqPos(team)[2]>>, Stats(cls, team).health,
           team = GDI)

\* no Harvester is on the map and the iron fields, which nothing else reads,
\* are left out
MarchInit ==
    /\ hqTeam = GDI
    /\ iron = 1500
    /\ production_queue = <<>>
    /\ production_timer = 0
    /\ pending_building = None
    /\ pending_building_pos = NoPos
    /\ power_output = 0
    /\ power_usage = 0
    /\ friendly_units = <<>>
    /\ headTicks = <<0, 0>>
    /\ lastDone = NoItem
    /\ UiIdle
    /\ fogUpdates = 0
    /\ ai = [ timer |-> 0, wave_timer |-> 0, wave_number |-> 0, state |-> "BUILD_UP",
              surprise_attack_cooldown |-> 0 ]
    /\ enemy_units = <<>>
    /\ decisions = 0
    /\ ticks = 0
    /\ phase = "units"
    /\ orders = 0
    /\ turn = 1
    /\ projectiles = <<>>
    /\ graveyard = <<>>
    /\ fired = <<>>
    /\ under_attack = {}
    /\ iron_fields = <<>>
    /\ global_buildings = <<GdiHq, NodHq>>
    /\ \E cls \in { "Infantry", "Tank" } :
         global_units = <<Marcher(101, cls, GDI), Marcher(201, cls, NOD)>>
    /\ visible = update_visible(PlayerCentres(global_units), PlayerCentres(global_buildings))
    /\ explored = visible

\* handle_attacks(team_units=..., ...): the loop over the units of the team
RECURSIVE handle_attacks(_, _, _)
handle_attacks(w, team_ids, k) ==
    IF k > Len(team_ids) THEN w
    ELSE handle_attacks(attack(w, deref(w, team_ids[k]),
                               closest_target(w, deref(w, team_ids[k]))),
                        team_ids, k + 1)

\* where the player clicks: open ground east of the headquarters, and the
\* enemy headquarters
MarchPositions == { <<470, 370>>, <<1340, 540>> }

\* MOUSEBUTTONDOWN, button 3, nothing pending, between two iterations
MarchOrder ==
    /\ phase = "units"
    /\ orders < MaxOrders
    /\ pending_building = None
    /\ \E world_pos \in MarchPositions :
         \E w \in { right_click_order(World, world_pos) } : SetWorld(w, "units")
    /\ orders' = orders + 1
    /\ UNCHANGED <<hqTeam, production_queue, production_timer, pending_building,
                   pending_building_pos, power_output, power_usage, friendly_units,
                   hqHistory, uiVars, ai, enemy_units, decisions, fogVars, turn>>

\* ai.update(...) as far as the units see it, between two iterations: the
\* units are recalled to the headquarters (target_id 0) or sent against the
\* player's headquarters
MarchWave ==
    /\ phase = "units"
    /\ orders < MaxOrders
    /\ \E target_id \in { 0, GdiHq.id }, offset \in { <<0, 0>>, <<-20, 20>> } :
         \E w \in { coordinate_attack(World, target_id, offset) } : SetWorld(w, "units")
    /\ orders' = orders + 1
    /\ UNCHANGED <<hqTeam, production_queue, production_timer, pending_building,
                   pending_building_pos, power_output, power_usage, friendly_units,
                   hqHistory, uiVars, ai, enemy_units, decisions, fogVars, turn>>

\* one iteration of the main loop without events: the updates of the units,
\* the buildings and the projectiles, the collisions, the attacks of the
\* player's units and then of the AI's, the hits of the projectiles, the fog
\* and the clearing of the flags
MainLoopPass ==
    /\ phase = "units"
    /\ \E u \in { update_units(World, [ i \in DOMAIN global_units |-> global_units[i].id ]) } :
        \E b \in { update_buildings(u, u.buildings) } :
         \E p \in { update_projectiles(b, b.projectiles) } :
          \E c \in { handle_collisions(p, [ i \in DOMAIN p.units |-> p.units[i].id ], 0) } :
           \E a \in { handle_attacks(c, [ i \in DOMAIN TeamUnits(c.units, GDI) |->
                                           TeamUnits(c.units, GDI)[i].id ], 1) } :
            \E n \in { handle_attacks(a, [ i \in DOMAIN TeamUnits(a.units, NOD) |->
                                            TeamUnits(a.units, NOD)[i].id ], 1) } :
             \E h \in { handle_projectiles(n, n.projectiles) } :
               /\ SetWorld([ h EXCEPT !.under_attack =
                               @ \ { h.units[i].id : i \in DOMAIN h.units } ], "units")
               /\ explored' = update_explored(explored, PlayerCentres(h.units),
                                              PlayerCentres(h.buildings))
               /\ visible' = update_visible(PlayerCentres(h.units), PlayerCentres(h.buildings))
    /\ power_output' = Headquarters_power_output(TeamBuildings(global_buildings, hqTeam))
    /\ power_usage' = Headquarters_power_usage(HqId(hqTeam), TeamUnits(global_units, hqTeam),
                                                TeamBuildings(global_buildings, hqTeam))
    /\ UNCHANGED <<hqTeam, production_queue, production_timer, pending_building,
                   pending_building_pos, friendly_units, headTicks, lastDone, uiVars,
                   ai, enemy_units, decisions, fogUpdates, orders, turn>>

\* the frames of the march are counted around the clock
MarchTick == MainLoopPass /\ ticks' = (ticks + 1) % (MaxHarvestTicks + 1)

NextMarch ==
    \/ MarchOrder
    \/ MarchWave
    \/ MarchTick

\* the main loop keeps running: weak fairness of its frames, which here are
\* the steps of MarchTick
SpecMarch == MarchInit /\ [][NextMarch]_vars /\ WF_ticks(Frame)

(***************************************************************************)
(* Claims about the orders of the combat units                             *)
(***************************************************************************)
C33_Unit(id) == SelectSeq(global_units, LAMBDA u : u.id = id)

\* the unit is under a plain move order: a target point and no target_unit
C33_Ordered(id) ==
    /\ C33_Unit(id) # <<>>
    /\ is_set(C33_Unit(id)[1].target)
    /\ C33_Unit(id)[1].target_unit = 0

\* the unit is idle again ("not u.target"), or it has been destroyed
C33_Idle(id) == C33_Unit(id) = <<>> \/ ~ is_set(C33_Unit(id)[1].target)

\* C33: a Tank or Infantry under a plain move order (a target point and no
\* target_unit) that is not destroyed eventually has target = None again.
C33_MoveOrderCompletes ==
    /\ C33_Ordered(101) ~> C33_Idle(101)
    /\ C33_Ordered(201) ~> C33_Idle(201)

\* the combat units that hold an attack order on a living enemy entity which
\* is outside their attack range
C34_Attackers ==
    { u \in { global_units[i] : i \in DOMAIN global_units } :
        /\ u.cls \in { "Tank", "Infantry" }
        /\ alive(World, u.target_unit)
        /\ deref(World, u.target_unit).team # u.team
        /\ Dist2(<<u.x, u.y>>, position_of(deref(World, u.target_unit)))
             > Sq(Stats(u.cls, u.team).ATTACK_RANGE) }

\* the attacker after the iteration, when it and its target have survived it
\* and it is still outside its attack range
C34_StillOut(u) ==
    /\ \E k \in DOMAIN global_units' : global_units'[k].id = u.id
    /\ alive(World, u.target_unit)'
    /\ Dist2(<<C6_After(u).x, C6_After(u).y>>, position_of(deref(World, u.target_unit))')
         > Sq(Stats(u.cls, u.team).ATTACK_RANGE)

\* C34: a Tank or Infantry ordered to attack a living enemy entity keeps it
\* as target_unit and comes nearer to it on every tick until it is within its
\* attack range or the entity dies, whatever the distance.
C34_AttackOrderPersists ==
    [][ticks' # ticks =>
          \A u \in C34_Attackers :
              C34_StillOut(u) =>
                  /\ C6_After(u).target_unit = u.target_unit
                  /\ Dist2(<<C6_After(u).x, C6_After(u).y>>,
                           position_of(deref(World, u.target_unit))')
                       < Dist2(<<u.x, u.y>>, position_of(deref(World, u.target_unit)))]_vars

(***************************************************************************)
(* Claims about the building that awaits placement                         *)
(***************************************************************************)
\* the step adds a building of the pending type to the roster of the team
C35_Placed ==
    /\ pending_building' = None
    /\ \E k \in DOMAIN global_buildings' :
         /\ global_buildings'[k].cls = pending_building
         /\ global_buildings'[k].team = hqTeam
         /\ \A j \in DOMAIN global_buildings : global_buildings[j].id # global_buildings'[k].id

\* the step is the player's right click that cancels the placement
C35_Cancelled ==
    /\ hqTeam = GDI
    /\ pending_building' = None
    /\ commands' # commands
    /\ lastCommand'.kind = "cancel"

\* C35: from its completion until it is placed or, by the player, cancelled,
\* a building stays the pending_building of its headquarters; no later
\* completion overwrites it.
C35_PendingBuildingKept ==
    [][pending_building # None /\ pending_building' # pending_building
          => C35_Placed \/ C35_Cancelled]_vars

(***************************************************************************)
(* The AI's base: iterations of the main loop without end, for an AI whose *)
(* headquarters stands alone and holds a completed Barracks                *)
(***************************************************************************)
BaseInit ==
    /\ AiInit
    /\ global_buildings = Layout(NOD, 0)
    /\ friendly_units = <<>>
    /\ enemy_units = StartingUnits(GDI, 0)
    /\ production_queue = <<>>
    /\ pending_building = "Barracks"
    /\ iron = 250
    /\ ai.wave_number = 0

\* the building updates of an iteration; the iterations are not counted
BaseBuildings ==
    /\ phase = "buildings"
    /\ hqTeam = NOD
    /\ IF HqAlive(global_buildings, hqTeam) THEN HQ_update
       ELSE UNCHANGED <<hqVars, headTicks, lastDone>>
    /\ phase' = "ai"
    /\ UNCHANGED <<ticks, ai, enemy_units, iron_fields, decisions, uiVars, fogVars, gameVars>>

\* the main loop's call of ai.update when random.random() never falls under
\* 0.1 and wave_interval is 150 each time; wave_number is counted up to
\* MaxWave, and the decisions are not counted
BaseDecision ==
    /\ phase = "ai"
    /\ hqTeam = NOD
    /\ \E pick \in Picks(ai, HQState, hqTeam) :
         \E r \in { AI_update_fields(ai, HQState, hqTeam, FALSE, ai.wave_timer + 1 >= 150,
                                     pick, NewId(global_buildings, selected_building)) } :
             /\ ai' = [ r.ai EXCEPT !.wave_number = Min(@, MaxWave) ]
             /\ SetHQ(r.s)
    /\ phase' = "buildings"
    /\ UNCHANGED <<hqTeam, ticks, decisions, headTicks, lastDone, enemy_units, iron_fields,
                   uiVars, fogVars, gameVars>>

NextBase == BaseBuildings \/ BaseDecision

\* a pass of the main loop: the building updates, then ai.update, then the
\* building updates of the next iteration; every step of NextBase is one
BasePass ==
    /\ phase \in { "buildings", "ai" }
    /\ phase' = IF phase = "buildings" THEN "ai" ELSE "buildings"

\* the main loop keeps running: weak fairness of its passes
SpecBase == BaseInit /\ [][NextBase]_vars /\ WF_phase(BasePass)

\* the AI's headquarters is alive and a building of class cls awaits placement
C36_Pending(cls) == HqAlive(global_buildings, NOD) /\ pending_building = cls

\* a building of class cls stands in the roster and nothing awaits placement,
\* or the headquarters has been destroyed
C36_Settled(cls) ==
    \/ ~ HqAlive(global_buildings, NOD)
    \/ /\ pending_building = None
       /\ \E k \in DOMAIN global_buildings :
            global_buildings[k].cls = cls /\ global_buildings[k].team = NOD

\* C36: whenever the AI's headquarters, staying alive, has a pending
\* building, some later decision adds a building of that type to the roster
\* and clears pending_building, failed attempts being retried.
C36_PendingEventuallyPlaced ==
    /\ C36_Pending("Barracks") ~> C36_Settled("Barracks")
    /\ C36_Pending("PowerPlant") ~> C36_Settled("PowerPlant")

(***************************************************************************)
(* Claims about the footprints of the buildings                            *)
(***************************************************************************)
C37_Living == { i \in DOMAIN global_buildings : global_buildings[i].health > 0 }

\* the footprints of the buildings i and j share a point of their interiors
C37_Overlap(i, j) ==
    LET a == global_buildings[i]
        b == global_buildings[j]
    IN  /\ a.x < b.x + SIZE[b.cls][1] /\ b.x < a.x + SIZE[a.cls][1]
        /\ a.y < b.y + SIZE[b.cls][2] /\ b.y < a.y + SIZE[a.cls][2]

\* C37: in every reachable state the footprints of the living buildings of
\* both factions are pairwise disjoint and each lies inside the map.
C37_FootprintsDisjoint ==
    /\ \A i, j \in C37_Living : i # j => ~ C37_Overlap(i, j)
    /\ \A i \in C37_Living :
         C4_InsideMap(<<global_buildings[i].x, global_buildings[i].y>>, global_buildings[i].cls)

\* the player has placed a building beside two others of their own
C37_Witness ==
    /\ lastCommand.kind = "place"
    /\ lastCommand.accepted
    /\ Cardinality({ i \in C37_Living : global_buildings[i].team = GDI }) >= 3
    /\ \E i \in C37_Living :
         <<global_buildings[i].x, global_buildings[i].y>> = lastCommand.pos

(***************************************************************************)
(* Claims about the entities that have been killed                         *)
(***************************************************************************)
\* the cooldown_timer of e is higher than it was in the group objs before
\* the step: e has attacked in the step
C38_Struck(objs, e) ==
    \E i \in DOMAIN objs : objs[i].id = e.id /\ objs[i].cooldown_timer < e.cooldown_timer

\* before the step the entity id is in its group and alive
C38_Alive(id) ==
    \/ \E i \in DOMAIN global_units : global_units[i].id = id /\ global_units[i].health > 0
    \/ \E i \in DOMAIN global_buildings :
         global_buildings[i].id = id /\ global_buildings[i].health > 0

\* every entity of objs, a group or the killed as the step leaves them, that
\* has attacked in the step was alive
C38_LivingActors(objs) ==
    \A k \in DOMAIN objs :
        \/ C38_Struck(global_units, objs[k])
        \/ C38_Struck(global_buildings, objs[k])
        \/ C38_Struck(graveyard, objs[k])
        => C38_Alive(objs[k].id)

\* C38: no unit or building whose health is <= 0 reduces the health of
\* another or adds a projectile: whatever attacks in a step, be it later in
\* the tick of its death or in a later tick, is in its group and alive.
C38_TheDeadDoNotAct ==
    [][/\ \A k \in (DOMAIN fired') \ (DOMAIN fired) : C38_Alive(fired'[k].id[1])
       /\ C38_LivingActors(global_units')
       /\ C38_LivingActors(global_buildings')
       /\ C38_LivingActors(graveyard')]_vars

\* handle_attacks has run for the AI's units after one of them was killed
\* with its weapon ready and a living entity of the player within its range
C38_Witness ==
    /\ phase = "projectiles"
    /\ \E k \in DOMAIN graveyard :
         /\ graveyard[k].team = NOD
         /\ graveyard[k].cls \in { "Infantry", "Tank" }
         /\ graveyard[k].cooldown_timer = 0
         /\ \E i \in DOMAIN Roster :
              /\ Roster[i].team = GDI
              /\ Roster[i].health > 0
              /\ Dist2(<<graveyard[k].x, graveyard[k].y>>, position_of(Roster[i]))
                   <= Sq(Stats(graveyard[k].cls, NOD).ATTACK_RANGE)

(***************************************************************************)
(* The player's base under attack: the clicks of the player and the main   *)
(* loop, with a unit of the AI come up to the War Factory                  *)
(***************************************************************************)
\* Bound of the siege scenarios
MaxSiegeTicks == 7

\* a unit of the AI beside the player's base, south of the War Factory
Raider(cls) == Placed(201, cls, NOD, <<414, 440>>, Stats(cls, NOD).health, FALSE)

\* the player's Barracks and War Factory stand beside the headquarters, the
\* War Factory fresh or worn down to its last points of health
SiegeInit ==
    /\ hqTeam = GDI
    /\ iron \in { 400, 1500 }
    /\ production_queue = <<>>
    /\ production_timer = 0
    /\ pending_building = None
    /\ pending_building_pos = NoPos
    /\ \E worn \in BOOLEAN :
         global_buildings =
           <<GdiHq, NodHq, Support(GDI, 1),
             [ Support(GDI, 2) EXCEPT !.health = IF worn THEN 8 ELSE @ ]>>
    /\ power_output = Headquarters_power_output(TeamBuildings(global_buildings, GDI))
    /\ power_usage =
         Headquarters_power_usage(HqId(GDI), <<>>, TeamBuildings(global_buildings, GDI))
    /\ friendly_units = <<>>
    /\ headTicks = <<0, 0>>
    /\ lastDone = NoItem
    /\ UiIdle
    /\ fogUpdates = 0
    /\ ai = [ timer |-> 0, wave_timer |-> 0, wave_number |-> 0, state |-> "BUILD_UP",
              surprise_attack_cooldown |-> 0 ]
    /\ enemy_units = <<>>
    /\ decisions = 0
    /\ ticks = 0
    /\ phase = "units"
    /\ orders = 0
    /\ turn = 1
    /\ projectiles = <<>>
    /\ graveyard = <<>>
    /\ fired = <<>>
    /\ under_attack = {}
    /\ iron_fields = <<>>
    /\ \E cls \in { "Infantry", "Tank" } : global_units = <<Raider(cls)>>
    /\ visible = update_visible(PlayerCentres(global_units), PlayerCentres(global_buildings))
    /\ explored = visible

\* MOUSEBUTTONDOWN, button 1, with nothing awaiting placement (main loop, lines
\* 679-720): the events of a frame come before its updates, and the building
\* that handle_click sells leaves every group as by kill()
SiegeClick ==
    \E click \in Clicks :
        /\ phase = "units"
        /\ hqTeam = GDI
        /\ commands < MaxCommands
        /\ pending_building = None
        /\ commands' = commands + 1
        /\ LET r == handle_click(HQState, UIState, click.widget, hqTeam)
               unit_cls == ButtonUnder(current_tab, click.widget)
               sold(b) == \A j \in DOMAIN r.s.global_buildings :
                              r.s.global_buildings[j].id # b.id
           IN  /\ SetHQ(r.s)
               /\ IF r.handled THEN SetUI(r.ui)
                  ELSE SetUI([ r.ui EXCEPT !.selected_building =
                                  clicked_building(global_buildings, click.pos) ])
               /\ lastCommand' =
                    [ kind |-> IF unit_cls # None THEN "buy"
                               ELSE IF click.widget.kind = "buy" THEN "empty slot"
                               ELSE click.widget.kind,
                      cls |-> unit_cls, pos |-> NoPos, accepted |-> r.handled ]
               /\ graveyard' = graveyard \o SelectSeq(global_buildings, sold)
        /\ UNCHANGED <<hqTeam, hqHistory, aiVars, fogVars, global_units, projectiles,
                       fired, orders, turn, under_attack>>

\* the first frames of the siege
SiegeTick ==
    /\ ticks < MaxSiegeTicks
    /\ MainLoopPass
    /\ ticks' = ticks + 1

NextSiege ==
    \/ SiegeClick
    \/ SiegeTick

SpecSiege == SiegeInit /\ [][NextSiege]_vars

(***************************************************************************)
(* Claims about the sell command                                           *)
(***************************************************************************)
\* the step is a sell command that raises the iron of the headquarters
C39_Refund ==
    /\ commands' # commands
    /\ lastCommand'.kind = "sell"
    /\ iron' > iron

\* the building the player has selected is in the roster and alive
C39_SelectedStands ==
    \E i \in DOMAIN global_buildings :
        /\ global_buildings[i].id = selected_building.id
        /\ global_buildings[i].health > 0

====
